---- MODULE Spec2Model ----
(***************************************************************************)
(* Model of the container classes of the payroll data-structures demo:     *)
(* Stack and StackWithMin (src/stack.py), Queue, CircularQueue,            *)
(* PriorityQueue and Deque (src/queue.py), of the functions                *)
(* is_balanced_parentheses, reverse_string_using_stack and                 *)
(* decimal_to_binary (src/stack.py), of the loops of the examples          *)
(* (src/test_data_structures.py) and of the routes of the service facade   *)
(* (src/api_server.py).                                                    *)
(*                                                                         *)
(* An object is a record of its fields.  A method is an operator that      *)
(* takes the object (and the arguments) and yields a record                *)
(*     [self |-> the object after the call,                                *)
(*      ret  |-> the returned value,                                       *)
(*      raised |-> "none" or the name of the exception raised].            *)
(* A Python value v that may also be None is modelled as the tuple <<v>>,  *)
(* and None as the empty tuple.  Python lists are sequences: list index i  *)
(* is sequence index i + 1.                                                *)
(***************************************************************************)
EXTENDS Integers, Sequences, FiniteSets, TLC

VARIABLES stack, queue, cq, pq, serial, ms, fed, out, last, obj, kind, held

vars == <<stack, queue, cq, pq, serial, ms, fed, out, last, obj, kind, held>>

(***************************************************************************)
(* Bounds of the model.                                                    *)
(***************************************************************************)
NumElems == 2
MaxLen == 2
NumFed == 3
MaxFed == 4
MaxMax == 1
MaxCap == 3
NumPrio == 3
MaxEnq == 4
NumVals == 3
MaxMin == 4
NumAny == 2
MaxAny == 3

Elements == 1..NumElems
FedElements == 1..NumFed
\* max_size and capacity are counts of elements: None (unset) or 0, 1, ...
MaxSizeArgs == {<<>>} \cup {<<n>> : n \in 0..MaxMax}
Capacities == 0..MaxCap
Priorities == 1..NumPrio
Values == 1..NumVals
AnyElements == 1..NumAny
Positions == -1..(MaxAny + 1)

(***************************************************************************)
(* Python values and list primitives.                                      *)
(***************************************************************************)
None == <<>>

Some(v) == <<v>>

NoError == "none"

OverflowError == "OverflowError"

IndexError == "IndexError"

Result(self, ret, raised) == [self |-> self, ret |-> ret, raised |-> raised]

\* list.pop(): the list without its last element
ListPopLast(items) == SubSeq(items, 1, Len(items) - 1)

\* list.pop(0): the list without its first element
ListPopFirst(items) == SubSeq(items, 2, Len(items))

\* list.insert(i, x) for 0 <= i <= len(list)
ListInsert(items, i, x) ==
    SubSeq(items, 1, i) \o <<x>> \o SubSeq(items, i + 1, Len(items))

\* a % b for b # 0 as Python computes it: the result has the sign of the divisor
PyMod(a, b) == IF b > 0 THEN a % b ELSE -((-a) % (-b))

\* list[i]: a negative i counts from the end; IndexError outside the list
PyIndex(items, i) == IF i < 0 THEN i + Len(items) ELSE i

InList(items, i) == PyIndex(items, i) >= 0 /\ PyIndex(items, i) < Len(items)

ListGet(items, i) == items[PyIndex(items, i) + 1]

ListSet(items, i, x) == [items EXCEPT ![PyIndex(items, i) + 1] = x]

ZeroDivisionError == "ZeroDivisionError"

SetMin(S) == CHOOSE x \in S : \A y \in S : x <= y

SetMax(S) == CHOOSE x \in S : \A y \in S : x >= y

\* [None] * n: the empty list when n <= 0
NoneList(n) == [i \in 1..(IF n > 0 THEN n ELSE 0) |-> None]

(***************************************************************************)
(* class Stack                                                             *)
(***************************************************************************)
Stack_init(max_size) == [items |-> <<>>, max_size |-> max_size]

Stack_is_empty(self) == Len(self.items) = 0

Stack_size(self) == Len(self.items)

Stack_push_late(self, element) ==
    IF self.max_size # None /\ Len(self.items) > self.max_size[1]
    THEN Result(self, None, OverflowError)
    ELSE Result([self EXCEPT !.items = Append(@, element)],
                Some(Len(self.items) + 1), NoError)

Stack_push(self, element) ==
    IF self.max_size # None /\ Len(self.items) >= self.max_size[1]
    THEN Result(self, None, OverflowError)
    ELSE Result([self EXCEPT !.items = Append(@, element)],
                Some(Len(self.items) + 1), NoError)

Stack_pop_bottom(self) ==
    IF Stack_is_empty(self)
    THEN Result(self, None, IndexError)
    ELSE Result([self EXCEPT !.items = ListPopFirst(@)],
                Some(self.items[1]), NoError)

Stack_pop(self) ==
    IF Stack_is_empty(self)
    THEN Result(self, None, IndexError)
    ELSE Result([self EXCEPT !.items = ListPopLast(@)],
                Some(self.items[Len(self.items)]), NoError)

Stack_clear(self) == Result([self EXCEPT !.items = <<>>], None, NoError)

Stack_set_max_size(self, size) ==
    Result([self EXCEPT !.max_size = size], None, NoError)

Stack_get_all(self) == self.items

(***************************************************************************)
(* class Queue                                                             *)
(***************************************************************************)
Queue_init(max_size) == [items |-> <<>>, max_size |-> max_size]

Queue_is_empty(self) == Len(self.items) = 0

Queue_size(self) == Len(self.items)

Queue_enqueue(self, element) ==
    IF self.max_size # None /\ Len(self.items) >= self.max_size[1]
    THEN Result(self, None, OverflowError)
    ELSE Result([self EXCEPT !.items = Append(@, element)],
                Some(Len(self.items) + 1), NoError)

Queue_dequeue_rear(self) ==
    IF Queue_is_empty(self)
    THEN Result(self, None, IndexError)
    ELSE Result([self EXCEPT !.items = ListPopLast(@)],
                Some(self.items[Len(self.items)]), NoError)

Queue_dequeue(self) ==
    IF Queue_is_empty(self)
    THEN Result(self, None, IndexError)
    ELSE Result([self EXCEPT !.items = ListPopFirst(@)],
                Some(self.items[1]), NoError)

Queue_clear(self) == Result([self EXCEPT !.items = <<>>], None, NoError)

Queue_set_max_size(self, size) ==
    Result([self EXCEPT !.max_size = size], None, NoError)

Queue_get_all(self) == self.items

(***************************************************************************)
(* The record of the last call: the method, its argument, what it          *)
(* returned or raised, and the object before the call.                     *)
(***************************************************************************)
Call(op, arg, r, pre) ==
    [op |-> op, arg |-> arg, ret |-> r.ret, raised |-> r.raised, pre |-> pre]

NoCall == [op |-> "init", arg |-> None, ret |-> None, raised |-> NoError,
           pre |-> None]

(***************************************************************************)
(* class CircularQueue                                                     *)
(***************************************************************************)
CircularQueue_init(capacity) ==
    [capacity |-> capacity, items |-> NoneList(capacity),
     front |-> -1, rear |-> -1, size |-> 0]

CircularQueue_is_empty(self) == self.size = 0

CircularQueue_is_full_over(self) == self.size > self.capacity

CircularQueue_is_full(self) == self.size = self.capacity

CircularQueue_get_size(self) == self.size

CircularQueue_enqueue(self, element) ==
    IF CircularQueue_is_full(self)
    THEN Result(self, None, OverflowError)
    ELSE LET s1 == IF CircularQueue_is_empty(self)
                   THEN [self EXCEPT !.front = 0]
                   ELSE self
         IN  IF self.capacity = 0
             THEN Result(s1, None, ZeroDivisionError)
             ELSE LET rear == PyMod(self.rear + 1, self.capacity)
                      s2 == [s1 EXCEPT !.rear = rear]
                  IN  IF ~InList(self.items, rear)
                      THEN Result(s2, None, IndexError)
                      ELSE Result([s2 EXCEPT
                                      !.items = ListSet(@, rear, Some(element)),
                                      !.size = @ + 1],
                                  Some(self.size + 1), NoError)

CircularQueue_dequeue_unchecked(self) ==
    IF ~InList(self.items, self.front)
    THEN Result(self, None, IndexError)
    ELSE LET element == ListGet(self.items, self.front)
             s1 == [self EXCEPT !.items = ListSet(@, self.front, None)]
         IN  IF self.size = 1
             THEN Result([s1 EXCEPT !.front = -1, !.rear = -1, !.size = @ - 1],
                         element, NoError)
             ELSE IF self.capacity = 0
             THEN Result(s1, None, ZeroDivisionError)
             ELSE Result([s1 EXCEPT
                             !.front = PyMod(self.front + 1, self.capacity),
                             !.size = @ - 1],
                         element, NoError)

CircularQueue_dequeue_keeps_slot(self) ==
    IF CircularQueue_is_empty(self)
    THEN Result(self, None, IndexError)
    ELSE IF ~InList(self.items, self.front)
    THEN Result(self, None, IndexError)
    ELSE LET element == ListGet(self.items, self.front)
         IN  IF self.size = 1
             THEN Result([self EXCEPT !.front = -1, !.rear = -1, !.size = @ - 1],
                         element, NoError)
             ELSE IF self.capacity = 0
             THEN Result(self, None, ZeroDivisionError)
             ELSE Result([self EXCEPT
                             !.front = PyMod(self.front + 1, self.capacity),
                             !.size = @ - 1],
                         element, NoError)

CircularQueue_dequeue(self) ==
    IF CircularQueue_is_empty(self)
    THEN Result(self, None, IndexError)
    ELSE IF ~InList(self.items, self.front)
    THEN Result(self, None, IndexError)
    ELSE LET element == ListGet(self.items, self.front)
             s1 == [self EXCEPT !.items = ListSet(@, self.front, None)]
         IN  IF self.size = 1
             THEN Result([s1 EXCEPT !.front = -1, !.rear = -1, !.size = @ - 1],
                         element, NoError)
             ELSE IF self.capacity = 0
             THEN Result(s1, None, ZeroDivisionError)
             ELSE Result([s1 EXCEPT
                             !.front = PyMod(self.front + 1, self.capacity),
                             !.size = @ - 1],
                         element, NoError)

CircularQueue_clear_keeps_size(self) ==
    Result([self EXCEPT !.items = NoneList(self.capacity),
                        !.front = -1, !.rear = -1],
           None, NoError)

CircularQueue_clear(self) ==
    Result([self EXCEPT !.items = NoneList(self.capacity),
                        !.front = -1, !.rear = -1, !.size = 0],
           None, NoError)

\* the slot visited by the loop of get_all after i steps from start; the
\* result lists the slots' values, Some(element) or None
CircularQueue_current(self, start, i) == PyMod(start + i, self.capacity)

CircularQueue_get_all_from_zero(self) ==
    IF CircularQueue_is_empty(self)
    THEN <<>>
    ELSE [i \in 1..self.size |->
            ListGet(self.items, CircularQueue_current(self, 0, i - 1))]

CircularQueue_get_all(self) ==
    IF CircularQueue_is_empty(self)
    THEN <<>>
    ELSE [i \in 1..self.size |->
            ListGet(self.items, CircularQueue_current(self, self.front, i - 1))]

(***************************************************************************)
(* class PriorityQueue                                                     *)
(***************************************************************************)
PriorityQueue_init == [items |-> <<>>]

PriorityQueue_is_empty(self) == Len(self.items) = 0

PriorityQueue_size(self) == Len(self.items)

\* the positions i at which the scan of enqueue stops: the loop breaks at the
\* first of them
PriorityQueue_stops(self, priority) ==
    {i \in 1..Len(self.items) : priority > self.items[i].priority}

PriorityQueue_insert(self, element, priority, stops) ==
    LET queue_element == [element |-> element, priority |-> priority]
        items == IF PriorityQueue_is_empty(self) \/ stops = {}
                 THEN Append(self.items, queue_element)
                 ELSE ListInsert(self.items, SetMin(stops) - 1, queue_element)
    IN  Result([self EXCEPT !.items = items], Some(Len(items)), NoError)

PriorityQueue_enqueue_lower_first(self, element, priority) ==
    PriorityQueue_insert(self, element, priority,
        {i \in 1..Len(self.items) : priority < self.items[i].priority})

PriorityQueue_enqueue_before_equal(self, element, priority) ==
    PriorityQueue_insert(self, element, priority,
        {i \in 1..Len(self.items) : priority >= self.items[i].priority})

PriorityQueue_enqueue(self, element, priority) ==
    PriorityQueue_insert(self, element, priority,
                         PriorityQueue_stops(self, priority))

PriorityQueue_dequeue(self) ==
    IF PriorityQueue_is_empty(self)
    THEN Result(self, None, IndexError)
    ELSE Result([self EXCEPT !.items = ListPopFirst(@)],
                Some(self.items[1].element), NoError)

PriorityQueue_clear(self) == Result([self EXCEPT !.items = <<>>], None, NoError)

PriorityQueue_get_all(self) ==
    [i \in 1..Len(self.items) |->
        [element |-> self.items[i].element, priority |-> self.items[i].priority]]

(***************************************************************************)
(* class StackWithMin(Stack): the inherited methods are Stack's, applied   *)
(* to the object with its extra field min_stack.                           *)
(***************************************************************************)
StackWithMin_init(max_size) ==
    [items |-> <<>>, max_size |-> max_size, min_stack |-> <<>>]

StackWithMin_push_strict(self, element) ==
    LET r == Stack_push(self, element) IN
    IF r.raised # NoError
    THEN r
    ELSE IF self.min_stack = <<>> \/ element < self.min_stack[Len(self.min_stack)]
    THEN Result([r.self EXCEPT !.min_stack = Append(@, element)], None, NoError)
    ELSE Result(r.self, None, NoError)

StackWithMin_push_min_first(self, element) ==
    LET s1 == IF self.min_stack = <<>>
                 \/ element <= self.min_stack[Len(self.min_stack)]
              THEN [self EXCEPT !.min_stack = Append(@, element)]
              ELSE self
        r == Stack_push(s1, element)
    IN  Result(r.self, None, r.raised)

StackWithMin_push(self, element) ==
    LET r == Stack_push(self, element) IN
    IF r.raised # NoError
    THEN r
    ELSE IF self.min_stack = <<>> \/ element <= self.min_stack[Len(self.min_stack)]
    THEN Result([r.self EXCEPT !.min_stack = Append(@, element)], None, NoError)
    ELSE Result(r.self, None, NoError)

StackWithMin_pop(self) ==
    LET r == Stack_pop(self) IN
    IF r.raised # NoError
    THEN r
    ELSE IF self.min_stack = <<>>
    THEN Result(r.self, None, IndexError)
    ELSE IF r.ret[1] = self.min_stack[Len(self.min_stack)]
    THEN Result([r.self EXCEPT !.min_stack = ListPopLast(@)], r.ret, NoError)
    ELSE Result(r.self, r.ret, NoError)

StackWithMin_get_min(self) ==
    IF self.min_stack = <<>>
    THEN None
    ELSE Some(self.min_stack[Len(self.min_stack)])

(***************************************************************************)
(* class Stack: the accessors                                              *)
(***************************************************************************)
ValueError == "ValueError"

\* list.index(x): the first index of x, ValueError when x is not in the list
ListIndex(items, x) ==
    LET at == {i \in 1..Len(items) : items[i] = x} IN
    IF at = {} THEN [ret |-> None, raised |-> ValueError]
               ELSE [ret |-> Some(SetMin(at) - 1), raised |-> NoError]

\* list[::-1]
ListReversed(items) == [i \in 1..Len(items) |-> items[Len(items) + 1 - i]]

Stack_peek(self) ==
    IF Stack_is_empty(self)
    THEN Result(self, None, NoError)
    ELSE Result(self, Some(ListGet(self.items, -1)), NoError)

Stack_search_from_bottom(self, element) ==
    LET found == ListIndex(ListReversed(self.items), element) IN
    IF found.raised = ValueError
    THEN Result(self, Some(-1), NoError)
    ELSE Result(self, Some(Len(self.items) - 1 - found.ret[1]), NoError)

Stack_search(self, element) ==
    LET found == ListIndex(ListReversed(self.items), element) IN
    IF found.raised = ValueError
    THEN Result(self, Some(-1), NoError)
    ELSE LET index == Len(self.items) - 1 - found.ret[1]
         IN  Result(self, Some(Len(self.items) - 1 - index), NoError)

Stack_element_at_from_bottom(self, position) ==
    IF position < 0 \/ position >= Len(self.items)
    THEN Result(self, None, NoError)
    ELSE Result(self, Some(ListGet(self.items, position)), NoError)

Stack_element_at(self, position) ==
    IF position < 0 \/ position >= Len(self.items)
    THEN Result(self, None, NoError)
    ELSE Result(self, Some(ListGet(self.items, Len(self.items) - 1 - position)),
                NoError)

(***************************************************************************)
(* class Queue: the accessors                                              *)
(***************************************************************************)
Queue_front(self) ==
    IF Queue_is_empty(self)
    THEN Result(self, None, NoError)
    ELSE Result(self, Some(ListGet(self.items, 0)), NoError)

Queue_rear(self) ==
    IF Queue_is_empty(self)
    THEN Result(self, None, NoError)
    ELSE Result(self, Some(ListGet(self.items, -1)), NoError)

Queue_search(self, element) ==
    LET found == ListIndex(self.items, element) IN
    IF found.raised = ValueError
    THEN Result(self, Some(-1), NoError)
    ELSE Result(self, found.ret, NoError)

Queue_element_at(self, position) ==
    IF position < 0 \/ position >= Len(self.items)
    THEN Result(self, None, NoError)
    ELSE Result(self, Some(ListGet(self.items, position)), NoError)

(***************************************************************************)
(* class CircularQueue and class PriorityQueue: the accessors.  A slot of  *)
(* the CircularQueue holds Some(element) or None, and the accessor returns *)
(* the slot's value.                                                       *)
(***************************************************************************)
CircularQueue_get_front(self) ==
    IF CircularQueue_is_empty(self)
    THEN Result(self, None, NoError)
    ELSE IF ~InList(self.items, self.front)
    THEN Result(self, None, IndexError)
    ELSE Result(self, ListGet(self.items, self.front), NoError)

CircularQueue_get_rear(self) ==
    IF CircularQueue_is_empty(self)
    THEN Result(self, None, NoError)
    ELSE IF ~InList(self.items, self.rear)
    THEN Result(self, None, IndexError)
    ELSE Result(self, ListGet(self.items, self.rear), NoError)

PriorityQueue_front(self) ==
    IF PriorityQueue_is_empty(self)
    THEN Result(self, None, NoError)
    ELSE Result(self, Some(ListGet(self.items, 0).element), NoError)

(***************************************************************************)
(* class Deque                                                             *)
(***************************************************************************)
Deque_init == [items |-> <<>>]

Deque_is_empty(self) == Len(self.items) = 0

Deque_size(self) == Len(self.items)

Deque_add_front_old_size(self, element) ==
    Result([self EXCEPT !.items = ListInsert(@, 0, element)],
           Some(Len(self.items)), NoError)

Deque_add_front(self, element) ==
    Result([self EXCEPT !.items = ListInsert(@, 0, element)],
           Some(Len(self.items) + 1), NoError)

Deque_add_rear(self, element) ==
    Result([self EXCEPT !.items = Append(@, element)],
           Some(Len(self.items) + 1), NoError)

Deque_remove_front(self) ==
    IF Deque_is_empty(self)
    THEN Result(self, None, IndexError)
    ELSE Result([self EXCEPT !.items = ListPopFirst(@)],
                Some(self.items[1]), NoError)

Deque_remove_rear_takes_front(self) ==
    IF Deque_is_empty(self)
    THEN Result(self, None, IndexError)
    ELSE Result([self EXCEPT !.items = ListPopFirst(@)],
                Some(self.items[1]), NoError)

Deque_remove_rear(self) ==
    IF Deque_is_empty(self)
    THEN Result(self, None, IndexError)
    ELSE Result([self EXCEPT !.items = ListPopLast(@)],
                Some(self.items[Len(self.items)]), NoError)

Deque_peek_front(self) ==
    IF Deque_is_empty(self)
    THEN Result(self, None, NoError)
    ELSE Result(self, Some(ListGet(self.items, 0)), NoError)

Deque_peek_rear(self) ==
    IF Deque_is_empty(self)
    THEN Result(self, None, NoError)
    ELSE Result(self, Some(ListGet(self.items, -1)), NoError)

Deque_clear(self) == Result([self EXCEPT !.items = <<>>], None, NoError)

Deque_get_all(self) == self.items

(***************************************************************************)
(* Initial states: every object freshly constructed.                       *)
(***************************************************************************)
InitCore ==
    /\ pq = PriorityQueue_init
    /\ serial = 0
    /\ fed = <<>>
    /\ out = <<>>
    /\ last = NoCall

InitRest ==
    /\ InitCore
    /\ obj = None
    /\ kind = "none"
    /\ held = 0

\* Stack() and Queue(), as payroll_stack_example and payroll_queue_example
\* construct them
InitLaw ==
    /\ stack = Stack_init(None)
    /\ queue = Queue_init(None)
    /\ cq = CircularQueue_init(MaxCap)
    /\ ms = StackWithMin_init(None)
    /\ InitRest

(***************************************************************************)
(* n pushes followed by n pops on a Stack (payroll_stack_example): fed is  *)
(* the sequence pushed, out the sequence popped.                           *)
(***************************************************************************)
LifoPush(e) ==
    /\ out = <<>>
    /\ Len(fed) < MaxFed
    /\ LET r == Stack_push(stack, e) IN
        /\ stack' = r.self
        /\ fed' = IF r.raised = NoError THEN Append(fed, e) ELSE fed
        /\ last' = Call("Stack.push", Some(e), r, stack)
    /\ UNCHANGED <<obj, kind, held, queue, cq, pq, serial, ms, out>>

LifoPop ==
    /\ Len(out) < Len(fed)
    /\ LET r == Stack_pop(stack) IN
        /\ stack' = r.self
        /\ out' = IF r.raised = NoError THEN Append(out, r.ret[1]) ELSE out
        /\ last' = Call("Stack.pop", None, r, stack)
    /\ UNCHANGED <<obj, kind, held, queue, cq, pq, serial, ms, fed>>

NextLIFO == (\E e \in FedElements : LifoPush(e)) \/ LifoPop

SpecLIFO == InitLaw /\ [][NextLIFO]_vars

(***************************************************************************)
(* n enqueues followed by n dequeues on a Queue (payroll_queue_example).   *)
(***************************************************************************)
FifoEnqueue(e) ==
    /\ out = <<>>
    /\ Len(fed) < MaxFed
    /\ LET r == Queue_enqueue(queue, e) IN
        /\ queue' = r.self
        /\ fed' = IF r.raised = NoError THEN Append(fed, e) ELSE fed
        /\ last' = Call("Queue.enqueue", Some(e), r, queue)
    /\ UNCHANGED <<obj, kind, held, stack, cq, pq, serial, ms, out>>

FifoDequeue ==
    /\ Len(out) < Len(fed)
    /\ LET r == Queue_dequeue(queue) IN
        /\ queue' = r.self
        /\ out' = IF r.raised = NoError THEN Append(out, r.ret[1]) ELSE out
        /\ last' = Call("Queue.dequeue", None, r, queue)
    /\ UNCHANGED <<obj, kind, held, stack, cq, pq, serial, ms, fed>>

NextFIFO == (\E e \in FedElements : FifoEnqueue(e)) \/ FifoDequeue

SpecFIFO == InitLaw /\ [][NextFIFO]_vars

(***************************************************************************)
(* A Stack and a Queue, each constructed with any max_size and then driven *)
(* by any sequence of push/enqueue, pop/dequeue, clear and set_max_size.   *)
(* MaxLen caps the length of an unbounded container.                       *)
(***************************************************************************)
InitBounded ==
    /\ \E m \in MaxSizeArgs : stack = Stack_init(m)
    /\ \E m \in MaxSizeArgs : queue = Queue_init(m)
    /\ cq = CircularQueue_init(MaxCap)
    /\ ms = StackWithMin_init(None)
    /\ InitRest

StackFrame == UNCHANGED <<obj, kind, held, queue, cq, pq, serial, ms, fed, out>>

QueueFrame == UNCHANGED <<obj, kind, held, stack, cq, pq, serial, ms, fed, out>>

StackPush(e) ==
    /\ Len(stack.items) < MaxLen
    /\ LET r == Stack_push(stack, e) IN
        /\ stack' = r.self
        /\ last' = Call("Stack.push", Some(e), r, stack)
    /\ StackFrame

StackPop ==
    /\ LET r == Stack_pop(stack) IN
        /\ stack' = r.self
        /\ last' = Call("Stack.pop", None, r, stack)
    /\ StackFrame

StackClear ==
    /\ LET r == Stack_clear(stack) IN
        /\ stack' = r.self
        /\ last' = Call("Stack.clear", None, r, stack)
    /\ StackFrame

StackSetMaxSize(size) ==
    /\ LET r == Stack_set_max_size(stack, size) IN
        /\ stack' = r.self
        /\ last' = Call("Stack.set_max_size", size, r, stack)
    /\ StackFrame

QueueEnqueue(e) ==
    /\ Len(queue.items) < MaxLen
    /\ LET r == Queue_enqueue(queue, e) IN
        /\ queue' = r.self
        /\ last' = Call("Queue.enqueue", Some(e), r, queue)
    /\ QueueFrame

QueueDequeue ==
    /\ LET r == Queue_dequeue(queue) IN
        /\ queue' = r.self
        /\ last' = Call("Queue.dequeue", None, r, queue)
    /\ QueueFrame

QueueClear ==
    /\ LET r == Queue_clear(queue) IN
        /\ queue' = r.self
        /\ last' = Call("Queue.clear", None, r, queue)
    /\ QueueFrame

QueueSetMaxSize(size) ==
    /\ LET r == Queue_set_max_size(queue, size) IN
        /\ queue' = r.self
        /\ last' = Call("Queue.set_max_size", size, r, queue)
    /\ QueueFrame

NextBounded ==
    \/ \E e \in Elements : StackPush(e)
    \/ StackPop
    \/ StackClear
    \/ \E m \in MaxSizeArgs : StackSetMaxSize(m)
    \/ \E e \in Elements : QueueEnqueue(e)
    \/ QueueDequeue
    \/ QueueClear
    \/ \E m \in MaxSizeArgs : QueueSetMaxSize(m)

SpecBounded == InitBounded /\ [][NextBounded]_vars

(***************************************************************************)
(* A CircularQueue constructed with any capacity and driven by any         *)
(* sequence of enqueue, dequeue and clear.  fed is the sequence of the     *)
(* elements enqueued with success since construction or the last clear,    *)
(* out the sequence of the values dequeued with success since then.        *)
(***************************************************************************)
InitCQ ==
    /\ stack = Stack_init(None)
    /\ queue = Queue_init(None)
    /\ \E c \in Capacities : cq = CircularQueue_init(c)
    /\ ms = StackWithMin_init(None)
    /\ InitRest

CQFrame == UNCHANGED <<obj, kind, held, stack, queue, pq, serial, ms>>

CQEnqueue(e) ==
    /\ Len(fed) < MaxFed
    /\ LET r == CircularQueue_enqueue(cq, e) IN
        /\ cq' = r.self
        /\ fed' = IF r.raised = NoError THEN Append(fed, e) ELSE fed
        /\ last' = Call("CircularQueue.enqueue", Some(e), r, cq)
    /\ UNCHANGED out
    /\ CQFrame

CQDequeue ==
    /\ LET r == CircularQueue_dequeue(cq) IN
        /\ cq' = r.self
        /\ out' = IF r.raised = NoError THEN Append(out, r.ret) ELSE out
        /\ last' = Call("CircularQueue.dequeue", None, r, cq)
    /\ UNCHANGED fed
    /\ CQFrame

CQClear ==
    /\ LET r == CircularQueue_clear(cq) IN
        /\ cq' = r.self
        /\ last' = Call("CircularQueue.clear", None, r, cq)
    /\ fed' = <<>>
    /\ out' = <<>>
    /\ CQFrame

NextCQ == (\E e \in FedElements : CQEnqueue(e)) \/ CQDequeue \/ CQClear

SpecCQ == InitCQ /\ [][NextCQ]_vars

(***************************************************************************)
(* A PriorityQueue driven by any sequence of enqueue, dequeue and clear.   *)
(* The elements enqueued are numbered in the order of their enqueue:       *)
(* serial is the number of enqueues made so far.                           *)
(***************************************************************************)
InitPQ == InitLaw

PQFrame == UNCHANGED <<obj, kind, held, stack, queue, cq, ms, fed, out>>

PQEnqueue(priority) ==
    /\ serial < MaxEnq
    /\ LET r == PriorityQueue_enqueue(pq, serial + 1, priority) IN
        /\ pq' = r.self
        /\ last' = Call("PriorityQueue.enqueue", Some(priority), r, pq)
    /\ serial' = serial + 1
    /\ PQFrame

PQDequeue ==
    /\ LET r == PriorityQueue_dequeue(pq) IN
        /\ pq' = r.self
        /\ last' = Call("PriorityQueue.dequeue", None, r, pq)
    /\ UNCHANGED serial
    /\ PQFrame

PQClear ==
    /\ LET r == PriorityQueue_clear(pq) IN
        /\ pq' = r.self
        /\ last' = Call("PriorityQueue.clear", None, r, pq)
    /\ UNCHANGED serial
    /\ PQFrame

NextPQ == (\E p \in Priorities : PQEnqueue(p)) \/ PQDequeue \/ PQClear

SpecPQ == InitPQ /\ [][NextPQ]_vars

(***************************************************************************)
(* A StackWithMin constructed with any max_size and driven by any sequence *)
(* of its own push and pop (SpecMin), and also of the clear it inherits    *)
(* from Stack (SpecMinClear).  MaxMin caps the length of an unbounded one  *)
(* and of min_stack, which clear lets grow beyond items.                   *)
(***************************************************************************)
InitMin ==
    /\ stack = Stack_init(None)
    /\ queue = Queue_init(None)
    /\ cq = CircularQueue_init(MaxCap)
    /\ \E m \in MaxSizeArgs : ms = StackWithMin_init(m)
    /\ InitRest

MinFrame == UNCHANGED <<obj, kind, held, stack, queue, cq, pq, serial, fed, out>>

MinPush(e) ==
    /\ Len(ms.items) < MaxMin
    /\ Len(ms.min_stack) < MaxMin
    /\ LET r == StackWithMin_push(ms, e) IN
        /\ ms' = r.self
        /\ last' = Call("StackWithMin.push", Some(e), r, ms)
    /\ MinFrame

MinPop ==
    /\ LET r == StackWithMin_pop(ms) IN
        /\ ms' = r.self
        /\ last' = Call("StackWithMin.pop", None, r, ms)
    /\ MinFrame

MinClear ==
    /\ LET r == Stack_clear(ms) IN
        /\ ms' = r.self
        /\ last' = Call("StackWithMin.clear", None, r, ms)
    /\ MinFrame

NextMin == (\E e \in Values : MinPush(e)) \/ MinPop

SpecMin == InitMin /\ [][NextMin]_vars

NextMinClear == NextMin \/ MinClear

SpecMinClear == InitMin /\ [][NextMinClear]_vars

(***************************************************************************)
(* One container of any of the six classes (kind), constructed with any    *)
(* max_size or capacity and then driven by any sequence of the methods of  *)
(* its class.  obj is the container; held counts the elements inserted     *)
(* with success and not yet removed or cleared.  MaxAny caps the length of *)
(* an unbounded container (and of min_stack).                              *)
(***************************************************************************)
InitAny ==
    /\ stack = Stack_init(None)
    /\ queue = Queue_init(None)
    /\ cq = CircularQueue_init(MaxCap)
    /\ ms = StackWithMin_init(None)
    /\ InitCore
    /\ held = 0
    /\ \/ kind = "Stack" /\ \E m \in MaxSizeArgs : obj = Stack_init(m)
       \/ kind = "StackWithMin" /\ \E m \in MaxSizeArgs : obj = StackWithMin_init(m)
       \/ kind = "Queue" /\ \E m \in MaxSizeArgs : obj = Queue_init(m)
       \/ kind = "CircularQueue" /\ \E c \in Capacities : obj = CircularQueue_init(c)
       \/ kind = "PriorityQueue" /\ obj = PriorityQueue_init
       \/ kind = "Deque" /\ obj = Deque_init

\* a call of method op: r is its outcome, h the elements held after it
Do(op, arg, r, h) ==
    /\ obj' = r.self
    /\ last' = Call(op, arg, r, obj)
    /\ held' = h
    /\ UNCHANGED <<stack, queue, cq, pq, serial, ms, fed, out, kind>>

Inserted(r) == IF r.raised = NoError THEN held + 1 ELSE held

Removed(r) == IF r.raised = NoError THEN held - 1 ELSE held

Room == Len(obj.items) < MaxAny

AnyStackPush(e) ==
    kind = "Stack" /\ Room
    /\ LET r == Stack_push(obj, e) IN Do("Stack.push", Some(e), r, Inserted(r))

AnyStackPop ==
    kind = "Stack"
    /\ LET r == Stack_pop(obj) IN Do("Stack.pop", None, r, Removed(r))

AnyStackClear ==
    kind = "Stack" /\ Do("Stack.clear", None, Stack_clear(obj), 0)

AnyStackSetMaxSize(m) ==
    kind = "Stack"
    /\ Do("Stack.set_max_size", m, Stack_set_max_size(obj, m), held)

AnyStackPeek ==
    kind = "Stack" /\ Do("Stack.peek", None, Stack_peek(obj), held)

AnyStackSearch(e) ==
    kind = "Stack" /\ Do("Stack.search", Some(e), Stack_search(obj, e), held)

AnyStackElementAt(k) ==
    kind = "Stack"
    /\ Do("Stack.element_at", Some(k), Stack_element_at(obj, k), held)

AnyMinPush(e) ==
    kind = "StackWithMin" /\ Room /\ Len(obj.min_stack) < MaxAny
    /\ LET r == StackWithMin_push(obj, e) IN
          Do("StackWithMin.push", Some(e), r, Inserted(r))

AnyMinPop ==
    kind = "StackWithMin"
    /\ LET r == StackWithMin_pop(obj) IN
          Do("StackWithMin.pop", None, r, Removed(r))

AnyMinClear ==
    kind = "StackWithMin" /\ Do("StackWithMin.clear", None, Stack_clear(obj), 0)

AnyMinGetMin ==
    kind = "StackWithMin"
    /\ Do("StackWithMin.get_min", None,
          Result(obj, StackWithMin_get_min(obj), NoError), held)

AnyQueueEnqueue(e) ==
    kind = "Queue" /\ Room
    /\ LET r == Queue_enqueue(obj, e) IN
          Do("Queue.enqueue", Some(e), r, Inserted(r))

AnyQueueDequeue ==
    kind = "Queue"
    /\ LET r == Queue_dequeue(obj) IN Do("Queue.dequeue", None, r, Removed(r))

AnyQueueClear ==
    kind = "Queue" /\ Do("Queue.clear", None, Queue_clear(obj), 0)

AnyQueueSetMaxSize(m) ==
    kind = "Queue"
    /\ Do("Queue.set_max_size", m, Queue_set_max_size(obj, m), held)

AnyQueueFront ==
    kind = "Queue" /\ Do("Queue.front", None, Queue_front(obj), held)

AnyQueueRear ==
    kind = "Queue" /\ Do("Queue.rear", None, Queue_rear(obj), held)

AnyQueueSearch(e) ==
    kind = "Queue" /\ Do("Queue.search", Some(e), Queue_search(obj, e), held)

AnyQueueElementAt(k) ==
    kind = "Queue"
    /\ Do("Queue.element_at", Some(k), Queue_element_at(obj, k), held)

AnyCQEnqueue(e) ==
    kind = "CircularQueue"
    /\ LET r == CircularQueue_enqueue(obj, e) IN
          Do("CircularQueue.enqueue", Some(e), r, Inserted(r))

AnyCQDequeue ==
    kind = "CircularQueue"
    /\ LET r == CircularQueue_dequeue(obj) IN
          Do("CircularQueue.dequeue", None, r, Removed(r))

AnyCQClear ==
    kind = "CircularQueue"
    /\ Do("CircularQueue.clear", None, CircularQueue_clear(obj), 0)

AnyCQGetFront ==
    kind = "CircularQueue"
    /\ Do("CircularQueue.get_front", None, CircularQueue_get_front(obj), held)

AnyCQGetRear ==
    kind = "CircularQueue"
    /\ Do("CircularQueue.get_rear", None, CircularQueue_get_rear(obj), held)

AnyPQEnqueue(e, p) ==
    kind = "PriorityQueue" /\ Room
    /\ LET r == PriorityQueue_enqueue(obj, e, p) IN
          Do("PriorityQueue.enqueue", <<e, p>>, r, Inserted(r))

AnyPQDequeue ==
    kind = "PriorityQueue"
    /\ LET r == PriorityQueue_dequeue(obj) IN
          Do("PriorityQueue.dequeue", None, r, Removed(r))

AnyPQClear ==
    kind = "PriorityQueue"
    /\ Do("PriorityQueue.clear", None, PriorityQueue_clear(obj), 0)

AnyPQFront ==
    kind = "PriorityQueue"
    /\ Do("PriorityQueue.front", None, PriorityQueue_front(obj), held)

AnyDequeAddFront(e) ==
    kind = "Deque" /\ Room
    /\ LET r == Deque_add_front(obj, e) IN
          Do("Deque.add_front", Some(e), r, Inserted(r))

AnyDequeAddRear(e) ==
    kind = "Deque" /\ Room
    /\ LET r == Deque_add_rear(obj, e) IN
          Do("Deque.add_rear", Some(e), r, Inserted(r))

AnyDequeRemoveFront ==
    kind = "Deque"
    /\ LET r == Deque_remove_front(obj) IN
          Do("Deque.remove_front", None, r, Removed(r))

AnyDequeRemoveRear ==
    kind = "Deque"
    /\ LET r == Deque_remove_rear(obj) IN
          Do("Deque.remove_rear", None, r, Removed(r))

AnyDequeClear ==
    kind = "Deque" /\ Do("Deque.clear", None, Deque_clear(obj), 0)

AnyDequePeekFront ==
    kind = "Deque" /\ Do("Deque.peek_front", None, Deque_peek_front(obj), held)

AnyDequePeekRear ==
    kind = "Deque" /\ Do("Deque.peek_rear", None, Deque_peek_rear(obj), held)

NextAny ==
    \/ \E e \in AnyElements : AnyStackPush(e)
    \/ AnyStackPop
    \/ AnyStackClear
    \/ \E m \in MaxSizeArgs : AnyStackSetMaxSize(m)
    \/ AnyStackPeek
    \/ \E e \in AnyElements : AnyStackSearch(e)
    \/ \E k \in Positions : AnyStackElementAt(k)
    \/ \E e \in AnyElements : AnyMinPush(e)
    \/ AnyMinPop
    \/ AnyMinClear
    \/ AnyMinGetMin
    \/ \E e \in AnyElements : AnyQueueEnqueue(e)
    \/ AnyQueueDequeue
    \/ AnyQueueClear
    \/ \E m \in MaxSizeArgs : AnyQueueSetMaxSize(m)
    \/ AnyQueueFront
    \/ AnyQueueRear
    \/ \E e \in AnyElements : AnyQueueSearch(e)
    \/ \E k \in Positions : AnyQueueElementAt(k)
    \/ \E e \in AnyElements : AnyCQEnqueue(e)
    \/ AnyCQDequeue
    \/ AnyCQClear
    \/ AnyCQGetFront
    \/ AnyCQGetRear
    \/ \E e \in AnyElements : \E p \in Priorities : AnyPQEnqueue(e, p)
    \/ AnyPQDequeue
    \/ AnyPQClear
    \/ AnyPQFront
    \/ \E e \in AnyElements : AnyDequeAddFront(e)
    \/ \E e \in AnyElements : AnyDequeAddRear(e)
    \/ AnyDequeRemoveFront
    \/ AnyDequeRemoveRear
    \/ AnyDequeClear
    \/ AnyDequePeekFront
    \/ AnyDequePeekRear

SpecAny == InitAny /\ [][NextAny]_vars

\* is_empty(), size() / get_size() and get_all() of the container, by class
IsEmptyOf(k, o) ==
    CASE k = "Stack" -> Stack_is_empty(o)
      [] k = "StackWithMin" -> Stack_is_empty(o)
      [] k = "Queue" -> Queue_is_empty(o)
      [] k = "CircularQueue" -> CircularQueue_is_empty(o)
      [] k = "PriorityQueue" -> PriorityQueue_is_empty(o)
      [] k = "Deque" -> Deque_is_empty(o)

SizeOf(k, o) ==
    CASE k = "Stack" -> Stack_size(o)
      [] k = "StackWithMin" -> Stack_size(o)
      [] k = "Queue" -> Queue_size(o)
      [] k = "CircularQueue" -> CircularQueue_get_size(o)
      [] k = "PriorityQueue" -> PriorityQueue_size(o)
      [] k = "Deque" -> Deque_size(o)

GetAllOf(k, o) ==
    CASE k = "Stack" -> Stack_get_all(o)
      [] k = "StackWithMin" -> Stack_get_all(o)
      [] k = "Queue" -> Queue_get_all(o)
      [] k = "CircularQueue" -> CircularQueue_get_all(o)
      [] k = "PriorityQueue" -> PriorityQueue_get_all(o)
      [] k = "Deque" -> Deque_get_all(o)

(***************************************************************************)
(* C1: after n successful pushes p1..pn on an empty unbounded Stack, the   *)
(* k-th pop succeeds and returns p(n-k+1): the pops made so far are the    *)
(* reverse of the pushes, taken from the end, and once n pops are made the *)
(* stack is empty.                                                         *)
(***************************************************************************)
StackLIFOLaw ==
    /\ \A k \in 1..Len(out) : out[k] = fed[Len(fed) - k + 1]
    /\ last.op = "Stack.pop" => last.raised = NoError
    /\ last.op = "Stack.push" => last.raised = NoError
    /\ Len(out) = Len(fed) => Stack_is_empty(stack)
    /\ Stack_size(stack) = Len(fed) - Len(out)

StackLIFOWitness ==
    /\ Len(fed) >= 3
    /\ fed[1] # fed[Len(fed)]
    /\ Len(out) = Len(fed)
    /\ last.op = "Stack.pop"

(***************************************************************************)
(* C2: after n successful enqueues e1..en on an empty Queue, the k-th      *)
(* dequeue succeeds and returns ek, and once n dequeues are made the queue *)
(* is empty.                                                               *)
(***************************************************************************)
QueueFIFOLaw ==
    /\ \A k \in 1..Len(out) : out[k] = fed[k]
    /\ last.op = "Queue.dequeue" => last.raised = NoError
    /\ last.op = "Queue.enqueue" => last.raised = NoError
    /\ Len(out) = Len(fed) => Queue_is_empty(queue)
    /\ Queue_size(queue) = Len(fed) - Len(out)

QueueFIFOWitness ==
    /\ Len(fed) >= 3
    /\ fed[1] # fed[Len(fed)]
    /\ Len(out) = Len(fed)
    /\ last.op = "Queue.dequeue"

(***************************************************************************)
(* C9: whenever max_size is set, size() <= max_size, for the Stack and for *)
(* the Queue, in every state reachable through construction, push/enqueue, *)
(* pop/dequeue, clear and set_max_size.                                    *)
(***************************************************************************)
WithinMaxSize(self) ==
    self.max_size # None => Len(self.items) <= self.max_size[1]

MaxSizeInvariant == WithinMaxSize(stack) /\ WithinMaxSize(queue)

(***************************************************************************)
(* C10: a push/enqueue on a container whose max_size is set and whose size *)
(* is >= max_size raises OverflowError and leaves items and max_size as    *)
(* they were; any other push/enqueue does not raise.                       *)
(***************************************************************************)
AtLimit(self) ==
    self.max_size # None /\ Len(self.items) >= self.max_size[1]

InsertOutcome(pre, cur) ==
    IF AtLimit(pre)
    THEN /\ last.raised = OverflowError
         /\ cur.items = pre.items
         /\ cur.max_size = pre.max_size
    ELSE last.raised = NoError

BoundedInsertFails ==
    /\ last.op = "Stack.push" => InsertOutcome(last.pre, stack)
    /\ last.op = "Queue.enqueue" => InsertOutcome(last.pre, queue)

BoundedInsertWitness ==
    /\ last.op = "Stack.push"
    /\ last.raised = OverflowError
    /\ Len(last.pre.items) > last.pre.max_size[1]
    /\ stack.items # <<>>
    /\ queue.max_size # None
    /\ Len(queue.items) = queue.max_size[1]
    /\ Len(queue.items) > 0

(***************************************************************************)
(* C3: after any interleaving of CircularQueue enqueue and dequeue calls,  *)
(* failed ones and ones that wrap the slot array included, every value     *)
(* dequeued with success is the oldest element enqueued and not yet        *)
(* dequeued (out is a prefix of fed), and get_all() is the rest of fed in  *)
(* enqueue order.                                                          *)
(***************************************************************************)
CQRemaining == [i \in 1..(Len(fed) - Len(out)) |-> Some(fed[Len(out) + i])]

CircularFIFO ==
    /\ Len(out) <= Len(fed)
    /\ \A k \in 1..Len(out) : out[k] = Some(fed[k])
    /\ CircularQueue_get_all(cq) = CQRemaining

\* a dequeue has succeeded on a window that wraps the end of the slot array
CircularFIFOWitness ==
    /\ last.op = "CircularQueue.dequeue"
    /\ last.raised = NoError
    /\ last.pre.rear < last.pre.front
    /\ Len(out) >= 2
    /\ cq.size >= 2
    /\ cq.rear < cq.front
    /\ fed[Len(fed)] # fed[Len(out) + 1]

PrioritySorted ==
    LET all == PriorityQueue_get_all(pq) IN
    \A i \in 1..Len(all) : \A j \in i..Len(all) :
        all[i].priority >= all[j].priority

\* an enqueue has inserted ahead of entries enqueued before it
PrioritySortedWitness ==
    /\ last.op = "PriorityQueue.enqueue"
    /\ Len(pq.items) >= 3
    /\ pq.items[1].priority > pq.items[Len(pq.items)].priority
    /\ \E i \in 1..Len(pq.items) : \E j \in (i + 1)..Len(pq.items) :
          pq.items[i].element > pq.items[j].element

(***************************************************************************)
(* C6: every successful PriorityQueue dequeue returns an element whose     *)
(* priority is the maximum of the priorities in the queue, and among the   *)
(* entries of that priority the one enqueued first.                        *)
(***************************************************************************)
MaxPriority(items) == SetMax({items[i].priority : i \in 1..Len(items)})

EarliestOfHighest(items, element) ==
    \E i \in 1..Len(items) :
        /\ items[i].element = element
        /\ items[i].priority = MaxPriority(items)
        /\ \A j \in 1..Len(items) :
              items[j].priority = MaxPriority(items)
                  => items[j].element >= element

PriorityStableService ==
    (last.op = "PriorityQueue.dequeue" /\ last.raised = NoError)
        => EarliestOfHighest(last.pre.items, last.ret[1])

\* the dequeue chose among several entries of the highest priority, with an
\* entry of lower priority enqueued before the one returned
PriorityStableWitness ==
    /\ last.op = "PriorityQueue.dequeue"
    /\ last.raised = NoError
    /\ LET items == last.pre.items IN
        /\ Cardinality({i \in 1..Len(items) :
                           items[i].priority = MaxPriority(items)}) >= 2
        /\ \E j \in 1..Len(items) :
              /\ items[j].priority < MaxPriority(items)
              /\ items[j].element < last.ret[1]

(***************************************************************************)
(* C7: after any sequence of successful and failed pushes and pops on a    *)
(* StackWithMin, get_min() is the minimum of the elements stored, or None  *)
(* if the stack is empty.                                                  *)
(***************************************************************************)
Stored(self) == {self.items[i] : i \in 1..Len(self.items)}

MinIsMinimum ==
    StackWithMin_get_min(ms) =
        IF Stack_is_empty(ms) THEN None ELSE Some(SetMin(Stored(ms)))

\* a pop has removed one copy of the minimum and another copy remains
MinIsMinimumWitness ==
    /\ last.op = "StackWithMin.pop"
    /\ last.raised = NoError
    /\ StackWithMin_get_min(ms) = last.ret
    /\ Cardinality(Stored(ms)) >= 2

(***************************************************************************)
(* C8: in every state of a StackWithMin reachable through push, pop and    *)
(* the inherited clear, min_stack is empty if and only if the stack is     *)
(* empty: get_min() is None whenever is_empty() is true and otherwise a    *)
(* value that is in the stack.                                             *)
(***************************************************************************)
MinStackAgrees ==
    /\ (ms.min_stack = <<>>) <=> Stack_is_empty(ms)
    /\ Stack_is_empty(ms) => StackWithMin_get_min(ms) = None
    /\ ~Stack_is_empty(ms) =>
          /\ StackWithMin_get_min(ms) # None
          /\ StackWithMin_get_min(ms)[1] \in Stored(ms)

(***************************************************************************)
(* C11: every removal (Stack.pop, StackWithMin.pop, Queue.dequeue,         *)
(* CircularQueue.dequeue, PriorityQueue.dequeue, Deque.remove_front,       *)
(* Deque.remove_rear) called on an empty container raises IndexError,      *)
(* returns no value and leaves the whole object as it was.                 *)
(***************************************************************************)
RemovalOps ==
    {"Stack.pop", "StackWithMin.pop", "Queue.dequeue", "CircularQueue.dequeue",
     "PriorityQueue.dequeue", "Deque.remove_front", "Deque.remove_rear"}

UnderflowFails ==
    (last.op \in RemovalOps /\ IsEmptyOf(kind, last.pre))
        => /\ last.raised = IndexError
           /\ last.ret = None
           /\ obj = last.pre

\* a dequeue on a CircularQueue that was filled and emptied again
UnderflowWitness ==
    /\ last.op = "CircularQueue.dequeue"
    /\ last.raised = IndexError
    /\ obj.capacity >= 2
    /\ held = 0

(***************************************************************************)
(* C12: in every reachable state of every container, is_empty() is true    *)
(* iff size() (get_size() for CircularQueue) is 0, and that size is the    *)
(* number of elements inserted and not yet removed or cleared.             *)
(***************************************************************************)
SizeAgrees ==
    /\ IsEmptyOf(kind, obj) <=> (SizeOf(kind, obj) = 0)
    /\ SizeOf(kind, obj) = held

SizeAgreesWitness ==
    /\ kind = "CircularQueue"
    /\ last.op = "CircularQueue.clear"
    /\ SizeOf(kind, last.pre) >= 2

(***************************************************************************)
(* C13: clear() from any reachable state of any container leaves it empty  *)
(* (is_empty() true, size 0, get_all() empty) and equal to a freshly       *)
(* constructed container of the same max_size or capacity: for the         *)
(* CircularQueue all slots None, front and rear -1, capacity unchanged.    *)
(***************************************************************************)
ClearOps ==
    {"Stack.clear", "StackWithMin.clear", "Queue.clear", "CircularQueue.clear",
     "PriorityQueue.clear", "Deque.clear"}

FreshLike(k, o) ==
    CASE k = "Stack" -> Stack_init(o.max_size)
      [] k = "StackWithMin" -> StackWithMin_init(o.max_size)
      [] k = "Queue" -> Queue_init(o.max_size)
      [] k = "CircularQueue" -> CircularQueue_init(o.capacity)
      [] k = "PriorityQueue" -> PriorityQueue_init
      [] k = "Deque" -> Deque_init

ClearedIsEmpty ==
    last.op \in ClearOps
        => /\ IsEmptyOf(kind, obj)
           /\ SizeOf(kind, obj) = 0
           /\ GetAllOf(kind, obj) = <<>>

ClearLeavesFresh ==
    /\ ClearedIsEmpty
    /\ last.op \in ClearOps => obj = FreshLike(kind, last.pre)

(***************************************************************************)
(* C14: the peek-style accessors (Stack.peek, StackWithMin.get_min,        *)
(* Queue.front/rear, CircularQueue.get_front/get_rear,                     *)
(* PriorityQueue.front, Deque.peek_front/peek_rear) never raise and never  *)
(* change the object; on an empty container they return None, and on a     *)
(* non-empty one the element the removal at that end would return next     *)
(* (for the rear of a queue, the last element of get_all(); for get_min,   *)
(* the minimum stored).                                                    *)
(***************************************************************************)
PeekOps ==
    {"Stack.peek", "StackWithMin.get_min", "Queue.front", "Queue.rear",
     "CircularQueue.get_front", "CircularQueue.get_rear",
     "PriorityQueue.front", "Deque.peek_front", "Deque.peek_rear"}

LastOf(items) == items[Len(items)]

\* what the accessor op is to return on the non-empty container o
PeekExpected(op, o) ==
    CASE op = "Stack.peek" -> Stack_pop(o).ret
      [] op = "StackWithMin.get_min" ->
            Some(SetMin({o.items[i] : i \in 1..Len(o.items)}))
      [] op = "Queue.front" -> Queue_dequeue(o).ret
      [] op = "Queue.rear" -> Some(LastOf(Queue_get_all(o)))
      [] op = "CircularQueue.get_front" -> CircularQueue_dequeue(o).ret
      [] op = "CircularQueue.get_rear" -> LastOf(CircularQueue_get_all(o))
      [] op = "PriorityQueue.front" -> PriorityQueue_dequeue(o).ret
      [] op = "Deque.peek_front" -> Deque_remove_front(o).ret
      [] op = "Deque.peek_rear" -> Deque_remove_rear(o).ret

PeekOutcome(ops) ==
    last.op \in ops
        => /\ last.raised = NoError
           /\ obj = last.pre
           /\ last.ret = IF IsEmptyOf(kind, last.pre)
                         THEN None
                         ELSE PeekExpected(last.op, last.pre)

PeekAgrees == PeekOutcome(PeekOps)

(***************************************************************************)
(* C16: every successful Stack.push, Queue.enqueue, CircularQueue.enqueue, *)
(* PriorityQueue.enqueue, Deque.add_front and Deque.add_rear returns the   *)
(* new size of the container, one more than its size before the call.      *)
(***************************************************************************)
InsertOps ==
    {"Stack.push", "Queue.enqueue", "CircularQueue.enqueue",
     "PriorityQueue.enqueue", "Deque.add_front", "Deque.add_rear"}

InsertReturnsSize ==
    (last.op \in InsertOps /\ last.raised = NoError)
        => /\ last.ret = Some(SizeOf(kind, last.pre) + 1)
           /\ last.ret = Some(SizeOf(kind, obj))

InsertReturnsSizeWitness ==
    /\ last.op = "Deque.add_front"
    /\ last.raised = NoError
    /\ last.ret = Some(3)
    /\ obj.items[1] # obj.items[2]

(***************************************************************************)
(* C17: a successful StackWithMin.push returns the new size of the stack,  *)
(* the value Stack.push returns on the same contents.                      *)
(***************************************************************************)
MinPushReturnsSize ==
    (last.op = "StackWithMin.push" /\ last.raised = NoError)
        => /\ last.ret = Stack_push(last.pre, last.arg[1]).ret
           /\ last.ret = Some(Stack_size(obj))

(***************************************************************************)
(* C18: Stack.search(e) returns the smallest distance from the top (0 =    *)
(* top) of an element equal to e, Queue.search(e) the smallest index from  *)
(* the front, each -1 if e is absent; neither changes the container.       *)
(***************************************************************************)
\* d is the least number in 0..Len(seq)-1 with seq[d + 1] = e, or -1 if none
LeastMatch(seq, e, d) ==
    IF \A i \in 1..Len(seq) : seq[i] # e
    THEN d = -1
    ELSE /\ d \in 0..(Len(seq) - 1)
         /\ seq[d + 1] = e
         /\ \A c \in 0..(d - 1) : seq[c + 1] # e

\* the elements of a stack from the top down
TopDown(items) == [i \in 1..Len(items) |-> items[Len(items) + 1 - i]]

SearchNearest ==
    /\ last.op = "Stack.search"
          => /\ last.raised = NoError
             /\ obj = last.pre
             /\ last.ret # None
             /\ LeastMatch(TopDown(last.pre.items), last.arg[1], last.ret[1])
    /\ last.op = "Queue.search"
          => /\ last.raised = NoError
             /\ obj = last.pre
             /\ last.ret # None
             /\ LeastMatch(last.pre.items, last.arg[1], last.ret[1])

\* the element searched is in the stack twice, the nearer one below the top
SearchNearestWitness ==
    /\ last.op = "Stack.search"
    /\ Len(obj.items) = 3
    /\ last.ret = Some(1)
    /\ obj.items[1] = last.arg[1]

(***************************************************************************)
(* C19: for a Stack (Queue) of size n and 0 <= k < n, element_at(k)        *)
(* returns what the (k+1)-th consecutive pop (dequeue) from that state     *)
(* would return; for k < 0 or k >= n it returns None; it never raises and  *)
(* never changes the container.                                            *)
(***************************************************************************)
RECURSIVE StackNthPop(_, _)
StackNthPop(self, n) ==
    IF n <= 1 THEN Stack_pop(self).ret
              ELSE StackNthPop(Stack_pop(self).self, n - 1)

RECURSIVE QueueNthDequeue(_, _)
QueueNthDequeue(self, n) ==
    IF n <= 1 THEN Queue_dequeue(self).ret
              ELSE QueueNthDequeue(Queue_dequeue(self).self, n - 1)

InRange(self, k) == 0 <= k /\ k < Len(self.items)

ElementAtAgrees ==
    /\ last.op = "Stack.element_at"
          => /\ last.raised = NoError
             /\ obj = last.pre
             /\ last.ret = IF InRange(last.pre, last.arg[1])
                           THEN StackNthPop(last.pre, last.arg[1] + 1)
                           ELSE None
    /\ last.op = "Queue.element_at"
          => /\ last.raised = NoError
             /\ obj = last.pre
             /\ last.ret = IF InRange(last.pre, last.arg[1])
                           THEN QueueNthDequeue(last.pre, last.arg[1] + 1)
                           ELSE None

ElementAtWitness ==
    /\ last.op = "Stack.element_at"
    /\ last.arg = Some(2)
    /\ Len(obj.items) = 3
    /\ obj.items[1] # obj.items[3]
    /\ last.ret = Some(obj.items[1])

(***************************************************************************)
(* is_balanced_parentheses (src/stack.py).  An expression is a sequence of *)
(* one-character strings.                                                  *)
(***************************************************************************)
MaxExpr == 5

opening == {"(", "[", "{"}

closing == {")", "]", "}"}

pairs == [c \in opening |-> CASE c = "(" -> ")" [] c = "[" -> "]" [] c = "{" -> "}"]

\* the characters an expression is made of: the brackets and one other
Chars == opening \cup closing \cup {"a"}

\* the for loop from character i on: [returned |-> TRUE] when a return
\* statement in the loop body is reached (it returns False), otherwise the
\* stack when the loop is over
RECURSIVE BalancedLoop(_, _, _)
BalancedLoop(expression, i, stk) ==
    IF i > Len(expression)
    THEN [returned |-> FALSE, stack |-> stk]
    ELSE LET char == expression[i] IN
         IF char \in opening
         THEN BalancedLoop(expression, i + 1, Stack_push(stk, char).self)
         ELSE IF char \in closing
         THEN IF Stack_is_empty(stk)
              THEN [returned |-> TRUE, stack |-> stk]
              ELSE LET p == Stack_pop(stk) IN
                   IF pairs[p.ret[1]] # char
                   THEN [returned |-> TRUE, stack |-> p.self]
                   ELSE BalancedLoop(expression, i + 1, p.self)
         ELSE BalancedLoop(expression, i + 1, stk)

is_balanced_parentheses_ignores_rest(expression) ==
    LET l == BalancedLoop(expression, 1, Stack_init(None)) IN
    IF l.returned
    THEN Result(None, Some(FALSE), NoError)
    ELSE Result(None, Some(TRUE), NoError)

is_balanced_parentheses(expression) ==
    LET l == BalancedLoop(expression, 1, Stack_init(None)) IN
    IF l.returned
    THEN Result(None, Some(FALSE), NoError)
    ELSE Result(None, Some(Stack_is_empty(l.stack)), NoError)

\* the expressions of the examples of the specification
ExampleExpressions ==
    {<<"(", ")", "[", "]", "{", "}">>, <<>>, <<"(", "[", ")", "]">>, <<"(">>}

Expressions ==
    UNION {[1..n -> Chars] : n \in 0..MaxExpr} \cup ExampleExpressions

\* fed is the expression; the containers are not used
InitBalanced ==
    /\ stack = Stack_init(None)
    /\ queue = Queue_init(None)
    /\ cq = CircularQueue_init(MaxCap)
    /\ ms = StackWithMin_init(None)
    /\ pq = PriorityQueue_init
    /\ serial = 0
    /\ out = <<>>
    /\ last = NoCall
    /\ obj = None
    /\ kind = "none"
    /\ held = 0
    /\ fed \in Expressions

BalancedCall ==
    /\ last = NoCall
    /\ last' = Call("is_balanced_parentheses", fed,
                    is_balanced_parentheses(fed), None)
    /\ UNCHANGED <<stack, queue, cq, pq, serial, ms, fed, out, obj, kind, held>>

NextBalanced == BalancedCall

SpecBalanced == InitBalanced /\ [][NextBalanced]_vars

\* the bracket characters of an expression, in order
Brackets(expression) ==
    SelectSeq(expression, LAMBDA c : c \in opening \cup closing)

\* the positions of s at which an opener is directly followed by its closer
AdjacentPairs(s) ==
    {i \in 1..(Len(s) - 1) :
        \/ s[i] = "(" /\ s[i + 1] = ")"
        \/ s[i] = "[" /\ s[i + 1] = "]"
        \/ s[i] = "{" /\ s[i + 1] = "}"}

\* a bracket sequence is well nested iff deleting adjacent matching pairs,
\* one after the other, leaves nothing
RECURSIVE WellNested(_)
WellNested(s) ==
    IF s = <<>> THEN TRUE
    ELSE IF AdjacentPairs(s) = {} THEN FALSE
    ELSE LET i == CHOOSE j \in AdjacentPairs(s) : TRUE IN
         WellNested(SubSeq(s, 1, i - 1) \o SubSeq(s, i + 2, Len(s)))

\* C20: is_balanced_parentheses(expression) returns a boolean without
\* failing, and it is True exactly when the bracket characters of the
\* expression are well nested, whatever other characters stand between
\* them; "()[]{}" and "" give True, "([)]" and "(" give False.
BalancedIffWellNested ==
    last.op = "is_balanced_parentheses" =>
        /\ last.raised = NoError
        /\ last.ret = Some(WellNested(Brackets(last.arg)))
        /\ last.arg \in {<<"(", ")", "[", "]", "{", "}">>, <<>>}
               => last.ret = Some(TRUE)
        /\ last.arg \in {<<"(", "[", ")", "]">>, <<"(">>}
               => last.ret = Some(FALSE)

\* a balanced expression with nesting and another character, judged True
BalancedWitness ==
    /\ last.op = "is_balanced_parentheses"
    /\ last.arg = <<"(", "a", "[", "]">> \o <<")">>
    /\ last.ret = Some(TRUE)

(***************************************************************************)
(* get_all and the caller's writes to what it returns.  A Python list or   *)
(* dict is an object with an identity: the value get_all returns is either *)
(* a list made by the call or the container's own self.items, and a record *)
(* in it is either a dict made by the call or one of the container's own.  *)
(*   [list |-> "new" or "self.items", items |-> the entries]               *)
(*   an entry of a PriorityQueue snapshot:                                 *)
(*   [dict |-> 0 for a dict made by the call, j > 0 for the container's    *)
(*             own dict self.items[j - 1], element |-> .., priority |-> ..]*)
(* A write through a reference changes the object it refers to, hence the  *)
(* container when the object is the container's own.                       *)
(***************************************************************************)
NumSnap == 2
MaxSnap == 2

SnapElements == 1..NumSnap

NewList(items) == [list |-> "new", items |-> items]

NewDict(element, priority) ==
    [dict |-> 0, element |-> element, priority |-> priority]

\* no list held by the caller
NoSnapshot == [list |-> "none", items |-> <<>>]

\* list.copy()
ListCopy(items) == NewList(items)

Stack_get_all_object(self) == ListCopy(self.items)

Queue_get_all_object(self) == ListCopy(self.items)

\* result = [] and the appends of the loop (return [] when empty)
CircularQueue_get_all_object(self) == NewList(CircularQueue_get_all(self))

\* self.items.copy(): a new list of the container's own dicts
PriorityQueue_get_all_object_shallow(self) ==
    NewList([i \in 1..Len(self.items) |->
        [dict |-> i, element |-> self.items[i].element,
         priority |-> self.items[i].priority]])

\* the list comprehension: a new list of new dicts
PriorityQueue_get_all_object(self) ==
    NewList([i \in 1..Len(self.items) |->
        NewDict(self.items[i].element, self.items[i].priority)])

Deque_get_all_object(self) == ListCopy(self.items)

GetAllObjectOf(k, o) ==
    CASE k = "Stack" -> Stack_get_all_object(o)
      [] k = "StackWithMin" -> Stack_get_all_object(o)
      [] k = "Queue" -> Queue_get_all_object(o)
      [] k = "CircularQueue" -> CircularQueue_get_all_object(o)
      [] k = "PriorityQueue" -> PriorityQueue_get_all_object(o)
      [] k = "Deque" -> Deque_get_all_object(o)

\* one insertion and one removal of each class
InsertOf(k, o, e) ==
    CASE k = "Stack" -> Stack_push(o, e)
      [] k = "StackWithMin" -> StackWithMin_push(o, e)
      [] k = "Queue" -> Queue_enqueue(o, e)
      [] k = "CircularQueue" -> CircularQueue_enqueue(o, e)
      [] k = "PriorityQueue" -> PriorityQueue_enqueue(o, e, e)
      [] k = "Deque" -> Deque_add_rear(o, e)

RemoveOf(k, o) ==
    CASE k = "Stack" -> Stack_pop(o)
      [] k = "StackWithMin" -> StackWithMin_pop(o)
      [] k = "Queue" -> Queue_dequeue(o)
      [] k = "CircularQueue" -> CircularQueue_dequeue(o)
      [] k = "PriorityQueue" -> PriorityQueue_dequeue(o)
      [] k = "Deque" -> Deque_remove_front(o)

(***************************************************************************)
(* SpecSnapshot: one container of any class, filled and emptied; the       *)
(* caller takes get_all(), writes to the list it got (and, for a           *)
(* PriorityQueue, to the records in it), lets it go and goes on using the  *)
(* container.  out is the list the caller holds.                           *)
(***************************************************************************)
InitSnapshot ==
    /\ stack = Stack_init(None)
    /\ queue = Queue_init(None)
    /\ cq = CircularQueue_init(MaxCap)
    /\ ms = StackWithMin_init(None)
    /\ pq = PriorityQueue_init
    /\ serial = 0
    /\ fed = <<>>
    /\ last = NoCall
    /\ held = 0
    /\ out = NoSnapshot
    /\ \/ kind = "Stack" /\ obj = Stack_init(None)
       \/ kind = "StackWithMin" /\ obj = StackWithMin_init(None)
       \/ kind = "Queue" /\ obj = Queue_init(None)
       \/ kind = "CircularQueue" /\ obj = CircularQueue_init(MaxSnap)
       \/ kind = "PriorityQueue" /\ obj = PriorityQueue_init
       \/ kind = "Deque" /\ obj = Deque_init

SnapFrame == UNCHANGED <<stack, queue, cq, pq, serial, ms, fed, held, kind>>

SnapInsert(e) ==
    /\ out = NoSnapshot
    /\ SizeOf(kind, obj) < MaxSnap
    /\ LET r == InsertOf(kind, obj, e) IN
          obj' = r.self /\ last' = Call("insert", Some(e), r, obj)
    /\ UNCHANGED out
    /\ SnapFrame

SnapRemove ==
    /\ out = NoSnapshot
    /\ LET r == RemoveOf(kind, obj) IN
          obj' = r.self /\ last' = Call("remove", None, r, obj)
    /\ UNCHANGED out
    /\ SnapFrame

\* snapshot = container.get_all(): no assignment to the container
SnapGetAll ==
    /\ out = NoSnapshot
    /\ out' = GetAllObjectOf(kind, obj)
    /\ obj' = obj
    /\ last' = Call("get_all", None, Result(obj, None, NoError), obj)
    /\ SnapFrame

\* the entries without the identities of the dicts
Plain(k, items) ==
    IF k = "PriorityQueue"
    THEN [i \in 1..Len(items) |->
             [element |-> items[i].element, priority |-> items[i].priority]]
    ELSE items

\* a value of the caller's of the type of the entries
CallerValue(k, e) ==
    CASE k = "CircularQueue" -> Some(e)
      [] k = "PriorityQueue" -> NewDict(e, e)
      [] OTHER -> e

\* the list the caller holds becomes items: the container's list too when
\* it is the same object
WriteList(op, items) ==
    /\ out' = [out EXCEPT !.items = items]
    /\ obj' = IF out.list = "self.items"
              THEN [obj EXCEPT !.items = Plain(kind, items)]
              ELSE obj
    /\ last' = Call(op, None, Result(obj', None, NoError), obj)
    /\ SnapFrame

\* snapshot.append(x)
SnapAppend(e) ==
    /\ out.list # "none"
    /\ Len(out.items) < MaxSnap
    /\ WriteList("snapshot.append", Append(out.items, CallerValue(kind, e)))

\* snapshot.pop()
SnapPop ==
    /\ out.list # "none"
    /\ Len(out.items) > 0
    /\ WriteList("snapshot.pop", ListPopLast(out.items))

\* snapshot[i - 1] = x
SnapSetItem(i, e) ==
    /\ out.list # "none"
    /\ i \in 1..Len(out.items)
    /\ WriteList("snapshot.setitem",
                 [out.items EXCEPT ![i] = CallerValue(kind, e)])

\* the record snapshot[i - 1] gets field := value: the container's dict too
\* when it is the same object
WriteDict(op, i, new) ==
    /\ out' = [out EXCEPT !.items[i] = new]
    /\ obj' = IF out.items[i].dict > 0
              THEN [obj EXCEPT !.items[out.items[i].dict] =
                       [@ EXCEPT !.element = new.element,
                                 !.priority = new.priority]]
              ELSE obj
    /\ last' = Call(op, None, Result(obj', None, NoError), obj)
    /\ SnapFrame

\* snapshot[i - 1]["priority"] = p
SnapSetPriority(i, p) ==
    /\ out.list # "none"
    /\ kind = "PriorityQueue"
    /\ i \in 1..Len(out.items)
    /\ WriteDict("record.priority", i, [out.items[i] EXCEPT !.priority = p])

\* snapshot[i - 1]["element"] = e
SnapSetElement(i, e) ==
    /\ out.list # "none"
    /\ kind = "PriorityQueue"
    /\ i \in 1..Len(out.items)
    /\ WriteDict("record.element", i, [out.items[i] EXCEPT !.element = e])

\* the caller lets the list go
SnapRelease ==
    /\ out.list # "none"
    /\ out' = NoSnapshot
    /\ obj' = obj
    /\ last' = Call("release", None, Result(obj, None, NoError), obj)
    /\ SnapFrame

NextSnapshot ==
    \/ \E e \in SnapElements : SnapInsert(e)
    \/ SnapRemove
    \/ SnapGetAll
    \/ \E e \in SnapElements : SnapAppend(e)
    \/ SnapPop
    \/ \E i \in 1..MaxSnap, e \in SnapElements : SnapSetItem(i, e)
    \/ \E i \in 1..MaxSnap, p \in SnapElements : SnapSetPriority(i, p)
    \/ \E i \in 1..MaxSnap, e \in SnapElements : SnapSetElement(i, e)
    \/ SnapRelease

SpecSnapshot == InitSnapshot /\ [][NextSnapshot]_vars

SnapshotWrites ==
    {"snapshot.append", "snapshot.pop", "snapshot.setitem",
     "record.priority", "record.element"}

\* C15: get_all() leaves the container as it was, and so does every write
\* of the caller to the list it returned and to the records of a
\* PriorityQueue snapshot: the container's fields (contents and order, and
\* with them the result of every later operation) are those before the
\* write.  The list returned holds the contents of the container.
SnapshotIsCopy ==
    /\ last.op = "get_all" =>
          /\ obj = last.pre
          /\ last.raised = NoError
          /\ Plain(kind, out.items) = GetAllOf(kind, obj)
    /\ last.op \in SnapshotWrites => obj = last.pre

\* a PriorityQueue of two elements whose snapshot record was rewritten and
\* now differs from the container
SnapshotWitness ==
    /\ kind = "PriorityQueue"
    /\ last.op = "record.priority"
    /\ Len(obj.items) = 2
    /\ Len(out.items) = 2
    /\ Plain(kind, out.items) # GetAllOf(kind, obj)

(***************************************************************************)
(* decimal_to_binary (src/stack.py), statement by statement.  obj holds    *)
(* the locals of the call, fed the argument; a string is the sequence of   *)
(* its characters.                                                         *)
(***************************************************************************)
MaxDec == 42
MaxNeg == 2

DecimalArgs == (-MaxNeg)..MaxDec

\* str(d) for a remainder d of 0 or 1
StrDigit(d) == IF d = 0 THEN "0" ELSE "1"

\* a // b for b > 0: floor division
PyFloorDiv(a, b) == a \div b

Frame(pc, decimal_num, stk, binary_result) ==
    [pc |-> pc, decimal_num |-> decimal_num, stack |-> stk,
     binary_result |-> binary_result]

InitBinary ==
    /\ stack = Stack_init(None)
    /\ queue = Queue_init(None)
    /\ cq = CircularQueue_init(MaxCap)
    /\ ms = StackWithMin_init(None)
    /\ pq = PriorityQueue_init
    /\ serial = 0
    /\ out = <<>>
    /\ last = NoCall
    /\ kind = "none"
    /\ held = 0
    /\ \E n \in DecimalArgs :
          /\ fed = <<n>>
          /\ obj = Frame("call", n, Stack_init(None), <<>>)

BinaryFrame == UNCHANGED <<stack, queue, cq, pq, serial, ms, fed, out, kind, held>>

Returns(op, value) ==
    last' = Call(op, fed, Result(None, Some(value), NoError), None)

\* if decimal_num == 0: return "0"
DecReturnZero ==
    /\ obj.pc = "call" /\ obj.decimal_num = 0
    /\ obj' = [obj EXCEPT !.pc = "done"]
    /\ Returns("decimal_to_binary", <<"0">>)
    /\ BinaryFrame

\* stack = Stack()
DecEnter ==
    /\ obj.pc = "call" /\ obj.decimal_num # 0
    /\ obj' = [obj EXCEPT !.pc = "divide", !.stack = Stack_init(None)]
    /\ UNCHANGED last
    /\ BinaryFrame

DecDivide_no_progress ==
    /\ obj.pc = "divide" /\ obj.decimal_num > 0
    /\ obj' = obj
    /\ UNCHANGED last
    /\ BinaryFrame

\* the body of while decimal_num > 0
DecDivide ==
    /\ obj.pc = "divide" /\ obj.decimal_num > 0
    /\ LET remainder == PyMod(obj.decimal_num, 2) IN
          obj' = [obj EXCEPT
                     !.stack = Stack_push(@, StrDigit(remainder)).self,
                     !.decimal_num = PyFloorDiv(@, 2)]
    /\ UNCHANGED last
    /\ BinaryFrame

\* the loop is left; binary_result = ""
DecDivided ==
    /\ obj.pc = "divide" /\ ~(obj.decimal_num > 0)
    /\ obj' = [obj EXCEPT !.pc = "build", !.binary_result = <<>>]
    /\ UNCHANGED last
    /\ BinaryFrame

DecBuild_prepends ==
    /\ obj.pc = "build" /\ ~Stack_is_empty(obj.stack)
    /\ LET p == Stack_pop(obj.stack) IN
          obj' = [obj EXCEPT !.stack = p.self,
                             !.binary_result = p.ret \o @]
    /\ UNCHANGED last
    /\ BinaryFrame

\* the body of while not stack.is_empty()
DecBuild ==
    /\ obj.pc = "build" /\ ~Stack_is_empty(obj.stack)
    /\ LET p == Stack_pop(obj.stack) IN
          obj' = [obj EXCEPT !.stack = p.self,
                             !.binary_result = @ \o p.ret]
    /\ UNCHANGED last
    /\ BinaryFrame

\* return binary_result
DecReturn ==
    /\ obj.pc = "build" /\ Stack_is_empty(obj.stack)
    /\ obj' = [obj EXCEPT !.pc = "done"]
    /\ Returns("decimal_to_binary", obj.binary_result)
    /\ BinaryFrame

NextBinary ==
    \/ DecReturnZero \/ DecEnter \/ DecDivide \/ DecDivided \/ DecBuild
    \/ DecReturn

SpecBinary == InitBinary /\ [][NextBinary]_vars

\* the number a string of binary digits denotes, most significant first
RECURSIVE BinaryValue(_)
BinaryValue(s) ==
    IF s = <<>> THEN 0
    ELSE 2 * BinaryValue(SubSeq(s, 1, Len(s) - 1))
         + (IF s[Len(s)] = "1" THEN 1 ELSE 0)

\* C21: for every n >= 0, decimal_to_binary(n) returns without failing the
\* standard binary numeral of n: "0" for 0, otherwise a non-empty string of
\* the digits 0 and 1 that starts with 1 and whose value, most significant
\* bit first, is n; 42 gives "101010".
BinaryNumeral ==
    (last.op = "decimal_to_binary" /\ last.arg[1] >= 0) =>
        LET n == last.arg[1]
            s == last.ret[1]
        IN  /\ last.raised = NoError
            /\ Len(s) > 0
            /\ \A i \in 1..Len(s) : s[i] \in {"0", "1"}
            /\ BinaryValue(s) = n
            /\ n = 0 => s = <<"0">>
            /\ n > 0 => s[1] = "1"
            /\ n = 42 => s = <<"1", "0", "1", "0", "1", "0">>

\* decimal_to_binary(42) has returned "101010"
BinaryNumeralWitness ==
    /\ last.op = "decimal_to_binary"
    /\ last.arg = <<42>>
    /\ last.ret = Some(<<"1", "0", "1", "0", "1", "0">>)

(***************************************************************************)
(* reverse_string_using_stack (src/stack.py).  fed is the text, out the    *)
(* result of reversing the result once more.                               *)
(***************************************************************************)
MaxText == 5

TextChars == {"H", "e", "l", "o"}

Texts == UNION {[1..n -> TextChars] : n \in 0..MaxText}

\* for char in text: stack.push(char), from character i on
RECURSIVE PushAll(_, _, _)
PushAll(text, i, stk) ==
    IF i > Len(text) THEN stk
    ELSE PushAll(text, i + 1, Stack_push(stk, text[i]).self)

\* while not stack.is_empty(): reversed_text += stack.pop()
RECURSIVE PopAll(_, _)
PopAll(stk, reversed_text) ==
    IF Stack_is_empty(stk) THEN reversed_text
    ELSE LET p == Stack_pop(stk) IN PopAll(p.self, reversed_text \o p.ret)

reverse_string_using_stack_bottom_up(text) ==
    Result(None, Some(PushAll(text, 1, Stack_init(None)).items), NoError)

reverse_string_using_stack(text) ==
    Result(None, Some(PopAll(PushAll(text, 1, Stack_init(None)), <<>>)),
           NoError)

InitReverse ==
    /\ stack = Stack_init(None)
    /\ queue = Queue_init(None)
    /\ cq = CircularQueue_init(MaxCap)
    /\ ms = StackWithMin_init(None)
    /\ pq = PriorityQueue_init
    /\ serial = 0
    /\ out = <<>>
    /\ last = NoCall
    /\ obj = None
    /\ kind = "none"
    /\ held = 0
    /\ fed \in Texts

\* reversed_name = reverse_string_using_stack(employee_name)
ReverseCall ==
    /\ last = NoCall
    /\ last' = Call("reverse_string_using_stack", fed,
                    reverse_string_using_stack(fed), None)
    /\ UNCHANGED <<stack, queue, cq, pq, serial, ms, fed, out, obj, kind, held>>

\* reverse_string_using_stack(reversed_name)
ReverseAgain ==
    /\ last.op = "reverse_string_using_stack"
    /\ out = <<>>
    /\ out' = reverse_string_using_stack(last.ret[1]).ret
    /\ UNCHANGED <<stack, queue, cq, pq, serial, ms, fed, last, obj, kind, held>>

NextReverse == ReverseCall \/ ReverseAgain

SpecReverse == InitReverse /\ [][NextReverse]_vars

Hello == <<"H", "e", "l", "l", "o">>

\* C22: reverse_string_using_stack(text) returns without failing a string
\* of the length n of text whose character at index i is the character of
\* text at index n - 1 - i; reversing the result gives text again, and
\* "Hello" gives "olleH".
ReverseIsReversed ==
    last.op = "reverse_string_using_stack" =>
        LET text == last.arg
            r == last.ret[1]
            n == Len(text)
        IN  /\ last.raised = NoError
            /\ Len(r) = n
            /\ \A i \in 0..(n - 1) : r[i + 1] = text[(n - 1 - i) + 1]
            /\ text = Hello => r = <<"o", "l", "l", "e", "H">>
            /\ out # <<>> => out = Some(text)

\* "Hello" was reversed to "olleH" and back
ReverseWitness ==
    /\ last.op = "reverse_string_using_stack"
    /\ last.arg = Hello
    /\ last.ret = Some(<<"o", "l", "l", "e", "H">>)
    /\ out = Some(Hello)

(***************************************************************************)
(* The service facade (src/api_server.py).  The two globals are a record   *)
(*     [payroll_stack |-> a Stack, payroll_queue |-> a Queue];             *)
(* a handler takes the globals and yields the globals after the request    *)
(* and the JSON object it returns, raised naming an exception that leaves  *)
(* the handler.  A field a response does not have is None.                 *)
(***************************************************************************)
NumItems == 2
MaxItems == 2

Items == 1..NumItems

Response(status, item, size, items, is_empty, message) ==
    [status |-> status, item |-> item, size |-> size, items |-> items,
     is_empty |-> is_empty, message |-> message]

\* except Exception as e: return jsonify({'status': 'error', 'message': str(e)})
ErrorResponse(message) == Response("error", None, None, None, None, Some(message))

\* the body of a try block that ran a container call c and, when it did not
\* raise, returns response; g is the globals after the call
Try(g, c, response) ==
    IF c.raised # NoError
    THEN Result(g, ErrorResponse(c.raised), NoError)
    ELSE Result(g, response, NoError)

stack_push(g, item) ==
    LET c == Stack_push(g.payroll_stack, item)
        g1 == [g EXCEPT !.payroll_stack = c.self]
    IN  Try(g1, c, Response("success", Some(item),
                            Some(Stack_size(g1.payroll_stack)),
                            None, None, None))

stack_pop_unchecked(g) ==
    LET c == Stack_pop(g.payroll_stack)
        g1 == [g EXCEPT !.payroll_stack = c.self]
    IN  Result(g1, Response("success", c.ret,
                            Some(Stack_size(g1.payroll_stack)),
                            None, None, None), c.raised)

stack_pop(g) ==
    IF ~Stack_is_empty(g.payroll_stack)
    THEN LET c == Stack_pop(g.payroll_stack)
             g1 == [g EXCEPT !.payroll_stack = c.self]
         IN  Try(g1, c, Response("success", c.ret,
                                 Some(Stack_size(g1.payroll_stack)),
                                 None, None, None))
    ELSE Result(g, ErrorResponse("Stack is empty"), NoError)

stack_peek(g) ==
    IF ~Stack_is_empty(g.payroll_stack)
    THEN LET c == Stack_peek(g.payroll_stack)
             g1 == [g EXCEPT !.payroll_stack = c.self]
         IN  Try(g1, c, Response("success", c.ret, None, None, None, None))
    ELSE Result(g, ErrorResponse("Stack is empty"), NoError)

stack_size(g) ==
    Result(g, Response("success", None, Some(Stack_size(g.payroll_stack)),
                       None, Some(Stack_is_empty(g.payroll_stack)), None),
           NoError)

stack_all(g) ==
    Result(g, Response("success", None, Some(Stack_size(g.payroll_stack)),
                       Some(Stack_get_all(g.payroll_stack)), None, None),
           NoError)

queue_enqueue(g, item) ==
    LET c == Queue_enqueue(g.payroll_queue, item)
        g1 == [g EXCEPT !.payroll_queue = c.self]
    IN  Try(g1, c, Response("success", Some(item),
                            Some(Queue_size(g1.payroll_queue)),
                            None, None, None))

queue_dequeue(g) ==
    IF ~Queue_is_empty(g.payroll_queue)
    THEN LET c == Queue_dequeue(g.payroll_queue)
             g1 == [g EXCEPT !.payroll_queue = c.self]
         IN  Try(g1, c, Response("success", c.ret,
                                 Some(Queue_size(g1.payroll_queue)),
                                 None, None, None))
    ELSE Result(g, ErrorResponse("Queue is empty"), NoError)

queue_front_dequeues(g) ==
    IF ~Queue_is_empty(g.payroll_queue)
    THEN LET c == Queue_dequeue(g.payroll_queue)
             g1 == [g EXCEPT !.payroll_queue = c.self]
         IN  Try(g1, c, Response("success", c.ret, None, None, None, None))
    ELSE Result(g, ErrorResponse("Queue is empty"), NoError)

queue_front(g) ==
    IF ~Queue_is_empty(g.payroll_queue)
    THEN LET c == Queue_front(g.payroll_queue)
             g1 == [g EXCEPT !.payroll_queue = c.self]
         IN  Try(g1, c, Response("success", c.ret, None, None, None, None))
    ELSE Result(g, ErrorResponse("Queue is empty"), NoError)

queue_size(g) ==
    Result(g, Response("success", None, Some(Queue_size(g.payroll_queue)),
                       None, Some(Queue_is_empty(g.payroll_queue)), None),
           NoError)

queue_all(g) ==
    Result(g, Response("success", None, Some(Queue_size(g.payroll_queue)),
                       Some(Queue_get_all(g.payroll_queue)), None, None),
           NoError)

health_check(g) ==
    Result(g, Response("healthy", None, None, None, None, None), NoError)

NoStatus == "no status field"

\* the response of api_info has no status field
api_info(g) ==
    Result(g, Response(NoStatus, None, None, None, None, None), NoError)

(***************************************************************************)
(* SpecFacade: requests handled one after the other.  stack and queue are  *)
(* the globals payroll_stack and payroll_queue; last is the last request,  *)
(* its response and the globals before it.                                 *)
(***************************************************************************)
InitFacade == InitLaw

Globals == [payroll_stack |-> stack, payroll_queue |-> queue]

Request(route, arg, r) ==
    /\ stack' = r.self.payroll_stack
    /\ queue' = r.self.payroll_queue
    /\ last' = Call(route, arg, r, Globals)
    /\ UNCHANGED <<cq, pq, serial, ms, fed, out, obj, kind, held>>

ReqStackPush(item) ==
    /\ Len(stack.items) < MaxItems
    /\ Request("/api/stack/push", Some(item), stack_push(Globals, item))

ReqStackPop == Request("/api/stack/pop", None, stack_pop(Globals))

ReqStackPeek == Request("/api/stack/peek", None, stack_peek(Globals))

ReqStackSize == Request("/api/stack/size", None, stack_size(Globals))

ReqStackAll == Request("/api/stack/all", None, stack_all(Globals))

ReqQueueEnqueue(item) ==
    /\ Len(queue.items) < MaxItems
    /\ Request("/api/queue/enqueue", Some(item), queue_enqueue(Globals, item))

ReqQueueDequeue == Request("/api/queue/dequeue", None, queue_dequeue(Globals))

ReqQueueFront == Request("/api/queue/front", None, queue_front(Globals))

ReqQueueSize == Request("/api/queue/size", None, queue_size(Globals))

ReqQueueAll == Request("/api/queue/all", None, queue_all(Globals))

ReqHealth == Request("/api/health", None, health_check(Globals))

ReqInfo == Request("/api/", None, api_info(Globals))

NextFacade ==
    \/ \E item \in Items : ReqStackPush(item)
    \/ ReqStackPop \/ ReqStackPeek \/ ReqStackSize \/ ReqStackAll
    \/ \E item \in Items : ReqQueueEnqueue(item)
    \/ ReqQueueDequeue \/ ReqQueueFront \/ ReqQueueSize \/ ReqQueueAll
    \/ ReqHealth \/ ReqInfo

SpecFacade == InitFacade /\ [][NextFacade]_vars

StackRoutes ==
    {"/api/stack/push", "/api/stack/pop", "/api/stack/peek",
     "/api/stack/size", "/api/stack/all"}

QueueRoutes ==
    {"/api/queue/enqueue", "/api/queue/dequeue", "/api/queue/front",
     "/api/queue/size", "/api/queue/all"}

\* the container a route is about, before the request
Asked(route, g) ==
    IF route \in StackRoutes THEN g.payroll_stack ELSE g.payroll_queue

\* the element a pop or dequeue removes from a non-empty container
NextOut(route, g) ==
    IF route = "/api/stack/pop"
    THEN g.payroll_stack.items[Len(g.payroll_stack.items)]
    ELSE g.payroll_queue.items[1]

\* C23: every request to a stack or queue route is answered by a response
\* with status success or error and no exception leaves the handler; pop,
\* dequeue, peek and front on an empty container answer error and leave
\* both globals as they were; pop and dequeue on a non-empty container
\* answer success with the element removed.
FacadeTranslates ==
    last.op \in StackRoutes \cup QueueRoutes =>
        /\ last.raised = NoError
        /\ last.ret.status \in {"success", "error"}
        /\ (/\ last.op \in {"/api/stack/pop", "/api/queue/dequeue",
                            "/api/stack/peek", "/api/queue/front"}
            /\ Len(Asked(last.op, last.pre).items) = 0)
           => (last.ret.status = "error" /\ Globals = last.pre)
        /\ (/\ last.op \in {"/api/stack/pop", "/api/queue/dequeue"}
            /\ Len(Asked(last.op, last.pre).items) > 0)
           => /\ last.ret.status = "success"
              /\ last.ret.item = Some(NextOut(last.op, last.pre))
              /\ Len(Asked(last.op, Globals).items)
                     = Len(Asked(last.op, last.pre).items) - 1

\* a pop on the empty stack was answered with an error
FacadeTranslatesWitness ==
    /\ last.op = "/api/stack/pop"
    /\ Len(last.pre.payroll_stack.items) = 0
    /\ Len(last.pre.payroll_queue.items) > 0
    /\ last.ret.status = "error"

\* C29: a request to a stack route leaves the global queue as it was, a
\* request to a queue route leaves the global stack as it was, and the
\* read-only routes (stack peek, size, all; queue front, size, all; health;
\* info) leave both as they were.
FacadeIsolation ==
    /\ last.op \in StackRoutes => queue = last.pre.payroll_queue
    /\ last.op \in QueueRoutes => stack = last.pre.payroll_stack
    /\ last.op \in {"/api/stack/peek", "/api/stack/size", "/api/stack/all",
                    "/api/queue/front", "/api/queue/size", "/api/queue/all",
                    "/api/health", "/api/"}
         => Globals = last.pre

\* the front of the non-empty queue was read while the stack held elements
FacadeIsolationWitness ==
    /\ last.op = "/api/queue/front"
    /\ last.ret.status = "success"
    /\ Len(queue.items) = MaxItems
    /\ Len(stack.items) > 0

(***************************************************************************)
(* SpecDeque: a Deque driven by any sequence of add_front, add_rear,       *)
(* remove_front and remove_rear.  obj is the Deque, out the calls made so  *)
(* far, each [op |-> method, arg |-> argument].                            *)
(***************************************************************************)
NumDq == 2
MaxOps == 4

DqElements == 1..NumDq

InitDeque ==
    /\ stack = Stack_init(None)
    /\ queue = Queue_init(None)
    /\ cq = CircularQueue_init(MaxCap)
    /\ ms = StackWithMin_init(None)
    /\ InitCore
    /\ held = 0
    /\ kind = "Deque"
    /\ obj = Deque_init

DqCall(op, arg, r) ==
    /\ Len(out) < MaxOps
    /\ obj' = r.self
    /\ out' = Append(out, [op |-> op, arg |-> arg])
    /\ last' = Call(op, arg, r, obj)
    /\ UNCHANGED <<stack, queue, cq, pq, serial, ms, fed, kind, held>>

DqAddFront(e) == DqCall("add_front", Some(e), Deque_add_front(obj, e))

DqAddRear(e) == DqCall("add_rear", Some(e), Deque_add_rear(obj, e))

DqRemoveFront == DqCall("remove_front", None, Deque_remove_front(obj))

DqRemoveRear == DqCall("remove_rear", None, Deque_remove_rear(obj))

NextDeque ==
    \/ \E e \in DqElements : DqAddFront(e)
    \/ \E e \in DqElements : DqAddRear(e)
    \/ DqRemoveFront
    \/ DqRemoveRear

SpecDeque == InitDeque /\ [][NextDeque]_vars

\* the front-to-rear sequence after the calls h: prepend on add_front,
\* append on add_rear, drop the first or the last on a removal (a removal
\* from the empty sequence fails and drops nothing)
RECURSIVE EndsModel(_)
EndsModel(h) ==
    IF h = <<>> THEN <<>>
    ELSE LET s == EndsModel(SubSeq(h, 1, Len(h) - 1))
             c == h[Len(h)]
         IN  CASE c.op = "add_front" -> <<c.arg[1]>> \o s
               [] c.op = "add_rear" -> s \o <<c.arg[1]>>
               [] c.op = "remove_front" -> SubSeq(s, 2, Len(s))
               [] c.op = "remove_rear" -> SubSeq(s, 1, Len(s) - 1)

OnlyCalls(h, ops) == \A i \in 1..Len(h) : h[i].op \in ops

\* the outcome of the last of the calls h made on a Queue, add_rear as
\* enqueue and remove_front as dequeue
RECURSIVE OnQueue(_)
OnQueue(h) ==
    IF h = <<>> THEN Result(Queue_init(None), None, NoError)
    ELSE LET q == OnQueue(SubSeq(h, 1, Len(h) - 1)).self
             c == h[Len(h)]
         IN  IF c.op = "add_rear" THEN Queue_enqueue(q, c.arg[1])
             ELSE Queue_dequeue(q)

\* the outcome of the last of the calls h made on a Stack, add_rear as push
\* and remove_rear as pop
RECURSIVE OnStack(_)
OnStack(h) ==
    IF h = <<>> THEN Result(Stack_init(None), None, NoError)
    ELSE LET s == OnStack(SubSeq(h, 1, Len(h) - 1)).self
             c == h[Len(h)]
         IN  IF c.op = "add_rear" THEN Stack_push(s, c.arg[1])
             ELSE Stack_pop(s)

SameOutcome(r) ==
    /\ Deque_get_all(obj) = r.self.items
    /\ out # <<>> => (last.ret = r.ret /\ last.raised = r.raised)

\* C24: after any sequence of add_front, add_rear, remove_front and
\* remove_rear, get_all() is the sequence obtained by prepending, appending
\* and dropping the first or last element, and a removal returns the
\* element dropped; add_front calls alone leave get_all() in reverse call
\* order; with add_rear and remove_front alone the Deque returns and holds
\* what a Queue does under enqueue and dequeue, and with add_rear and
\* remove_rear alone what a Stack does under push and pop.
DequeEnds ==
    kind = "Deque" =>
        /\ Deque_get_all(obj) = EndsModel(out)
        /\ (last.op = "remove_front" /\ last.raised = NoError)
              => last.ret = Some(EndsModel(SubSeq(out, 1, Len(out) - 1))[1])
        /\ (last.op = "remove_rear" /\ last.raised = NoError)
              => LET s == EndsModel(SubSeq(out, 1, Len(out) - 1)) IN
                 last.ret = Some(s[Len(s)])
        /\ last.op \in {"remove_front", "remove_rear"}
              => (last.raised = IndexError
                    <=> EndsModel(SubSeq(out, 1, Len(out) - 1)) = <<>>)
        /\ OnlyCalls(out, {"add_front"})
              => \A i \in 1..Len(out) :
                    Deque_get_all(obj)[i] = out[Len(out) + 1 - i].arg[1]
        /\ OnlyCalls(out, {"add_rear", "remove_front"})
              => SameOutcome(OnQueue(out))
        /\ OnlyCalls(out, {"add_rear", "remove_rear"})
              => SameOutcome(OnStack(out))

\* two elements added at the front, one at the rear, one removed at the rear
DequeEndsWitness ==
    /\ kind = "Deque"
    /\ Len(out) = 4
    /\ out[1].op = "add_front" /\ out[2].op = "add_front"
    /\ out[3].op = "add_rear" /\ out[4].op = "remove_rear"
    /\ out[1].arg # out[2].arg
    /\ Deque_get_all(obj) = <<out[2].arg[1], out[1].arg[1]>>

(***************************************************************************)
(* SpecConstruct: CircularQueue(capacity) for any integer capacity, then   *)
(* enqueue and dequeue.  kind is "none" before the constructor has run and *)
(* "CircularQueue" after it, obj is the object constructed.                *)
(***************************************************************************)
MaxBelow == 2

AnyCapacities == (-MaxBelow)..MaxCap

InitConstruct == InitLaw

ConstructFrame == UNCHANGED <<stack, queue, cq, pq, serial, ms, fed, out, held>>

\* CircularQueue(c): __init__ has no raise statement and [None] * c is
\* defined for every integer c
CtorCall(c) ==
    /\ kind = "none"
    /\ obj' = CircularQueue_init(c)
    /\ kind' = "CircularQueue"
    /\ last' = Call("CircularQueue.__init__", Some(c),
                    Result(obj', None, NoError), None)
    /\ ConstructFrame

CtorEnqueue(e) ==
    /\ kind = "CircularQueue"
    /\ LET r == CircularQueue_enqueue(obj, e) IN
          obj' = r.self /\ last' = Call("CircularQueue.enqueue", Some(e), r, obj)
    /\ UNCHANGED kind
    /\ ConstructFrame

CtorDequeue ==
    /\ kind = "CircularQueue"
    /\ LET r == CircularQueue_dequeue(obj) IN
          obj' = r.self /\ last' = Call("CircularQueue.dequeue", None, r, obj)
    /\ UNCHANGED kind
    /\ ConstructFrame

NextConstruct ==
    \/ \E c \in AnyCapacities : CtorCall(c)
    \/ \E e \in Elements : CtorEnqueue(e)
    \/ CtorDequeue

SpecConstruct == InitConstruct /\ [][NextConstruct]_vars

\* C26: the constructor fails for a capacity <= 0, so every CircularQueue
\* constructed has a positive capacity, and an enqueue that fails leaves
\* front and rear (and every other field) as they were.
PositiveCapacity ==
    /\ (last.op = "CircularQueue.__init__" /\ last.arg[1] <= 0)
          => last.raised # NoError
    /\ kind = "CircularQueue" => obj.capacity > 0
    /\ (last.op = "CircularQueue.enqueue" /\ last.raised # NoError)
          => obj = last.pre

(***************************************************************************)
(* The overwrite-oldest loop of circular_buffer_example: the body of       *)
(*     for log in logs                                                     *)
(* as one step on the log buffer cq; fed lists the logs the loop has       *)
(* handled.                                                                *)
(***************************************************************************)
\* try: log_buffer.enqueue(log)
\* except OverflowError: log_buffer.dequeue(); log_buffer.enqueue(log)
\* raised names the exception that leaves the loop body
feed_log(log_buffer, log) ==
    LET first == CircularQueue_enqueue(log_buffer, log) IN
    IF first.raised # OverflowError
    THEN Result(first.self, None, first.raised)
    ELSE LET removed == CircularQueue_dequeue(first.self) IN
         IF removed.raised # NoError
         THEN Result(removed.self, None, removed.raised)
         ELSE LET retry == CircularQueue_enqueue(removed.self, log) IN
              Result(retry.self, None, retry.raised)

InitOverwrite == InitCQ

OverwriteFeed(log) ==
    /\ Len(fed) < MaxFed
    /\ LET r == feed_log(cq, log) IN
        /\ cq' = r.self
        /\ fed' = IF r.raised = NoError THEN Append(fed, log) ELSE fed
        /\ last' = Call("feed_log", Some(log), r, cq)
    /\ UNCHANGED out
    /\ CQFrame

NextOverwrite == \E log \in FedElements : OverwriteFeed(log)

SpecOverwrite == InitOverwrite /\ [][NextOverwrite]_vars

\* the last n elements of a sequence of at least n elements, as get_all
\* lists them
LastFed(n) == [i \in 1..n |-> Some(fed[Len(fed) - n + i])]

\* C25: when enqueue fails because the buffer is full, the dequeue and the
\* retried enqueue of the overwrite-oldest loop succeed, and once at least
\* capacity elements have been fed get_all() is the last capacity elements
\* fed, in the order fed.
OverwriteOldest ==
    last.op = "feed_log" =>
        /\ last.raised = NoError
        /\ Len(fed) >= cq.capacity
              => CircularQueue_get_all(cq) = LastFed(cq.capacity)
        /\ Len(fed) < cq.capacity
              => CircularQueue_get_all(cq) = LastFed(Len(fed))

\* the slots (list indices) of the live window front..rear
LiveSlots(self) ==
    {(self.front + i) % self.capacity : i \in 0..(self.size - 1)}

\* C27: in every state of a CircularQueue of capacity > 0 reached by
\* enqueue, dequeue and clear: size = 0 iff front = -1 iff rear = -1; when
\* size > 0, front and rear are in 0..capacity-1 and
\* rear = (front + size - 1) mod capacity; every slot outside the live
\* window holds None (and there are capacity slots, at most capacity of
\* them live).
CircularIndexInvariant ==
    cq.capacity > 0 =>
        /\ (cq.size = 0) <=> (cq.front = -1)
        /\ (cq.front = -1) <=> (cq.rear = -1)
        /\ Len(cq.items) = cq.capacity
        /\ cq.size \in 0..cq.capacity
        /\ cq.size > 0 =>
              /\ cq.front \in 0..(cq.capacity - 1)
              /\ cq.rear \in 0..(cq.capacity - 1)
              /\ cq.rear = (cq.front + cq.size - 1) % cq.capacity
        /\ \A j \in 0..(cq.capacity - 1) :
              (cq.size = 0 \/ j \notin LiveSlots(cq)) => cq.items[j + 1] = None

\* a live window that wraps the end of the slot array, with a cleared slot
\* between rear and front, after a dequeue
CircularIndexWitness ==
    /\ cq.capacity > 0
    /\ last.op = "CircularQueue.dequeue"
    /\ last.raised = NoError
    /\ cq.size > 0
    /\ cq.rear < cq.front
    /\ cq.size < cq.capacity

\* C28: a push of a StackWithMin that fails (the stack is at max_size:
\* OverflowError) and a pop that fails (the stack is empty: IndexError)
\* leave items and min_stack, and every other field, as they were, so
\* get_min() returns what it returned before the call.
MinNoPartialMutation ==
    (/\ kind = "StackWithMin"
     /\ last.op \in {"StackWithMin.push", "StackWithMin.pop"}
     /\ last.raised # NoError)
    => /\ obj.items = last.pre.items
       /\ obj.min_stack = last.pre.min_stack
       /\ obj = last.pre
       /\ StackWithMin_get_min(obj) = StackWithMin_get_min(last.pre)
       /\ last.op = "StackWithMin.push" =>
             (last.raised = OverflowError /\ AtLimit(last.pre))
       /\ last.op = "StackWithMin.pop" =>
             (last.raised = IndexError /\ Len(last.pre.items) = 0)

\* a push on a full bounded StackWithMin that tracks a minimum has failed
MinNoPartialWitness ==
    /\ kind = "StackWithMin"
    /\ last.op = "StackWithMin.push"
    /\ last.raised = OverflowError
    /\ Len(obj.min_stack) > 0
    /\ last.arg[1] < obj.min_stack[Len(obj.min_stack)]

(***************************************************************************)
(* SpecConcurrent: the mutating routes handled by concurrent threads of    *)
(* the server started by app.run, with no lock around the globals.  A      *)
(* handler's emptiness test, its container call and its size() read are    *)
(* separate steps.  obj maps each thread to the handler it runs:           *)
(*   pc       "idle", "start", "checked", "mutated" or "done"              *)
(*   route    the route requested                                          *)
(*   item     the item pushed or enqueued, or popped or dequeued           *)
(*   after    the size of the container right after the handler's own call *)
(*   response the JSON object returned                                     *)
(*   raised   the exception that left the handler                          *)
(* serial counts the requests, and the item of a push or enqueue is the    *)
(* number of its request; out lists the items returned by successful pop   *)
(* and dequeue calls.                                                      *)
(***************************************************************************)
NumThreads == 2
MaxReq == 3

Threads == 1..NumThreads

MutatingRoutes ==
    {"/api/stack/push", "/api/stack/pop", "/api/queue/enqueue",
     "/api/queue/dequeue"}

NoResponse == Response("none", None, None, None, None, None)

Handler(pc, route, item, after, response, raised) ==
    [pc |-> pc, route |-> route, item |-> item, after |-> after,
     response |-> response, raised |-> raised]

InitConcurrent ==
    /\ stack = Stack_init(None)
    /\ queue = Queue_init(None)
    /\ cq = CircularQueue_init(MaxCap)
    /\ ms = StackWithMin_init(None)
    /\ InitCore
    /\ held = 0
    /\ kind = "threads"
    /\ obj = [t \in Threads |->
                Handler("idle", "none", None, None, NoResponse, NoError)]

ConcurrentFrame == UNCHANGED <<cq, pq, ms, fed, last, kind, held>>

\* a request arrives and a thread starts its handler
ConStart(t, route) ==
    /\ obj[t].pc \in {"idle", "done"}
    /\ serial < MaxReq
    /\ serial' = serial + 1
    /\ obj' = [obj EXCEPT ![t] =
                 Handler("start", route,
                         IF route \in {"/api/stack/push", "/api/queue/enqueue"}
                         THEN Some(serial') ELSE None,
                         None, NoResponse, NoError)]
    /\ UNCHANGED <<stack, queue, out>>
    /\ ConcurrentFrame

\* the handler of thread t ends in the except clause
Fails(t, message) ==
    [obj EXCEPT ![t].pc = "done", ![t].response = ErrorResponse(message)]

\* payroll_stack.push(item)
ConPush(t) ==
    /\ obj[t].pc = "start" /\ obj[t].route = "/api/stack/push"
    /\ LET c == Stack_push(stack, obj[t].item[1]) IN
        /\ stack' = c.self
        /\ obj' = IF c.raised # NoError THEN Fails(t, c.raised)
                  ELSE [obj EXCEPT ![t].pc = "mutated",
                                   ![t].after = Some(Stack_size(c.self))]
    /\ UNCHANGED <<queue, serial, out>>
    /\ ConcurrentFrame

\* payroll_queue.enqueue(item)
ConEnqueue(t) ==
    /\ obj[t].pc = "start" /\ obj[t].route = "/api/queue/enqueue"
    /\ LET c == Queue_enqueue(queue, obj[t].item[1]) IN
        /\ queue' = c.self
        /\ obj' = IF c.raised # NoError THEN Fails(t, c.raised)
                  ELSE [obj EXCEPT ![t].pc = "mutated",
                                   ![t].after = Some(Queue_size(c.self))]
    /\ UNCHANGED <<stack, serial, out>>
    /\ ConcurrentFrame

\* if not payroll_stack.is_empty(): ... else the 'Stack is empty' response
ConCheckStack(t) ==
    /\ obj[t].pc = "start" /\ obj[t].route = "/api/stack/pop"
    /\ obj' = IF ~Stack_is_empty(stack)
              THEN [obj EXCEPT ![t].pc = "checked"]
              ELSE Fails(t, "Stack is empty")
    /\ UNCHANGED <<stack, queue, serial, out>>
    /\ ConcurrentFrame

\* if not payroll_queue.is_empty(): ... else the 'Queue is empty' response
ConCheckQueue(t) ==
    /\ obj[t].pc = "start" /\ obj[t].route = "/api/queue/dequeue"
    /\ obj' = IF ~Queue_is_empty(queue)
              THEN [obj EXCEPT ![t].pc = "checked"]
              ELSE Fails(t, "Queue is empty")
    /\ UNCHANGED <<stack, queue, serial, out>>
    /\ ConcurrentFrame

\* item = payroll_stack.pop()
ConPop(t) ==
    /\ obj[t].pc = "checked" /\ obj[t].route = "/api/stack/pop"
    /\ LET c == Stack_pop(stack) IN
        /\ stack' = c.self
        /\ obj' = IF c.raised # NoError THEN Fails(t, c.raised)
                  ELSE [obj EXCEPT ![t].pc = "mutated", ![t].item = c.ret,
                                   ![t].after = Some(Stack_size(c.self))]
        /\ out' = IF c.raised # NoError THEN out ELSE Append(out, c.ret[1])
    /\ UNCHANGED <<queue, serial>>
    /\ ConcurrentFrame

\* item = payroll_queue.dequeue()
ConDequeue(t) ==
    /\ obj[t].pc = "checked" /\ obj[t].route = "/api/queue/dequeue"
    /\ LET c == Queue_dequeue(queue) IN
        /\ queue' = c.self
        /\ obj' = IF c.raised # NoError THEN Fails(t, c.raised)
                  ELSE [obj EXCEPT ![t].pc = "mutated", ![t].item = c.ret,
                                   ![t].after = Some(Queue_size(c.self))]
        /\ out' = IF c.raised # NoError THEN out ELSE Append(out, c.ret[1])
    /\ UNCHANGED <<stack, serial>>
    /\ ConcurrentFrame

\* return jsonify({'status': 'success', 'item': item, 'size': ....size()})
ConRespond(t) ==
    /\ obj[t].pc = "mutated"
    /\ LET size == IF obj[t].route \in StackRoutes
                   THEN Stack_size(stack) ELSE Queue_size(queue)
       IN  obj' = [obj EXCEPT ![t].pc = "done",
                              ![t].response =
                                  Response("success", obj[t].item, Some(size),
                                           None, None, None)]
    /\ UNCHANGED <<stack, queue, serial, out>>
    /\ ConcurrentFrame

NextConcurrent ==
    \E t \in Threads :
        \/ \E route \in MutatingRoutes : ConStart(t, route)
        \/ ConPush(t) \/ ConEnqueue(t)
        \/ ConCheckStack(t) \/ ConCheckQueue(t)
        \/ ConPop(t) \/ ConDequeue(t)
        \/ ConRespond(t)

SpecConcurrent == InitConcurrent /\ [][NextConcurrent]_vars

Finished(t) == kind = "threads" /\ obj[t].pc = "done"

\* the size in every successful response is the size right after the
\* handler's own call
SizeIsOwn ==
    \A t \in Threads :
        (Finished(t) /\ obj[t].response.status = "success")
            => obj[t].response.size = obj[t].after

\* no item is returned by two successful pop or dequeue calls
ReturnedOnce ==
    \A i, j \in 1..Len(out) : out[i] = out[j] => i = j

\* no exception leaves a handler: it ends with a success or error response
NothingEscapes ==
    \A t \in Threads :
        Finished(t) => /\ obj[t].raised = NoError
                       /\ obj[t].response.status \in {"success", "error"}

\* C30: with requests on the same global container handled concurrently,
\* the size in a successful response is the size of the container right
\* after that handler's own push, pop, enqueue or dequeue, each stored
\* element is returned by at most one successful pop or dequeue, and no
\* handler lets an underflow failure escape.
FacadeSerialized ==
    kind = "threads" => (SizeIsOwn /\ ReturnedOnce /\ NothingEscapes)

(***************************************************************************)
(* SpecBinaryRuns: decimal_to_binary run to its end.  The function is      *)
(* sequential code with no call that blocks, so the interpreter takes the  *)
(* next statement as long as there is one: weak fairness of the step.      *)
(***************************************************************************)
SpecBinaryRuns == SpecBinary /\ WF_vars(NextBinary)

\* floor(log2 n) + 1 for n > 0: the k with 2^(k-1) <= n < 2^k
BitLength(n) == CHOOSE k \in 1..n : 2 ^ (k - 1) <= n /\ n < 2 ^ k

\* the digits pushed and not yet popped, and the digits popped
DigitsAccounted ==
    LET n == fed[1] IN
    /\ obj.pc \in {"build", "done"} => obj.decimal_num <= 0
    /\ (n > 0 /\ obj.pc = "divide") => obj.decimal_num >= 0
    /\ (n > 0 /\ obj.pc \in {"build", "done"}) =>
          /\ obj.decimal_num = 0
          /\ Len(obj.stack.items) + Len(obj.binary_result) = BitLength(n)
    /\ (n > 0 /\ obj.pc = "done") =>
          /\ Len(obj.stack.items) = 0
          /\ Len(last.ret[1]) = BitLength(n)
    /\ n < 0 =>
          /\ obj.decimal_num = n
          /\ obj.stack.items = <<>>
          /\ obj.binary_result = <<>>
    /\ obj.pc = "done" =>
          /\ last.op = "decimal_to_binary"
          /\ last.raised = NoError
          /\ n < 0 => last.ret = Some(<<>>)

\* a pass of the first loop pushes one digit and makes decimal_num smaller
LoopDecreases ==
    (obj.pc = "divide" /\ obj'.pc = "divide") =>
        /\ obj'.decimal_num < obj.decimal_num
        /\ obj'.decimal_num >= 0
        /\ Len(obj'.stack.items) = Len(obj.stack.items) + 1

\* C31: decimal_to_binary returns for every integer argument.  For n > 0
\* each pass of the first loop makes decimal_num strictly smaller until it
\* is 0, floor(log2 n) + 1 digits are pushed and all of them are popped;
\* for n < 0 the loop body never runs, nothing is pushed, no exception is
\* raised and the result is the empty string.
BinaryTerminates ==
    /\ <>(obj.pc = "done")
    /\ []DigitsAccounted
    /\ [][LoopDecreases]_vars

\* decimal_to_binary of a negative number has returned the empty string
BinaryTerminatesWitness ==
    /\ obj.pc = "done"
    /\ fed[1] < 0
    /\ last.op = "decimal_to_binary"
    /\ last.ret = Some(<<>>)
    /\ last.raised = NoError

====
